---- MODULE Spec2Model ----
(***************************************************************************)
(* lambdaconnect-js: the offline-first synchronisation engine.             *)
(*                                                                         *)
(* The local store (Dexie tables keyed by uuid), the write hooks installed *)
(* by Database.initialize(), and SyncManager (push, pull, merge) as a      *)
(* state machine.  One step is one uninterrupted run of the event loop:    *)
(* from one await that hands control back to the loop to the next.  Local  *)
(* writes (from this tab or another tab sharing the store) interleave with *)
(* the steps of sync().  The server is the environment: every response it  *)
(* may give is drawn from a bounded set.                                   *)
(***************************************************************************)
EXTENDS Integers, Sequences, FiniteSets, TLC

\* ------------------------------------------------------------------ bounds
MaxSyncs == 2        \* sync() invocations per behaviour
MaxWrites == 2       \* local writes per behaviour
MaxRev == 1          \* largest syncRevision the server assigns (0..MaxRev)
MaxBatch == 2        \* records in one pull response

\* ------------------------------------------------------- program constants
TryLaterCode == 42
HttpOk == 200

\* ------------------------------------------------------------ the universe
Entities == {"Client", "Order"}
UuidsOf(e) == IF e = "Client" THEN {"c1", "c2"} ELSE {"o1"}
Vals == {"a", "b"}
Revs == 0 .. MaxRev
ServerTime == "t0"
LocalTime == "t1"
LaterTime == "t2"
Invs == {1}

\* A JS object is a function from the names of its own properties to their
\* values; a property that is undefined is not in the DOMAIN.
Has(o, f) == f \in DOMAIN o
SetField(o, f, v) == [g \in DOMAIN o \cup {f} |-> IF g = f THEN v ELSE o[g]]
DeleteField(o, f) == [g \in DOMAIN o \ {f} |-> o[g]]
Assign(o, m) == [g \in DOMAIN o \cup DOMAIN m |-> IF g \in DOMAIN m THEN m[g] ELSE o[g]]
EmptyObject == [g \in {} |-> 0]

VARIABLES
  db,              \* db[e]: the Dexie table of entity e, a function uuid -> row
  inv,             \* inv[i]: the i-th sync() invocation (its locals and position)
  syncInProgress,  \* SyncManager.syncInProgress
  nSyncs,          \* sync() calls made so far
  nWrites,         \* local writes made so far
  acked,           \* history: <<e, uuid>> whose current content the server accepted
  failedPush,      \* history: the last push, if it failed and no write followed
  fac              \* the Database facade, its view models and the redux state

syncVars == <<db, inv, syncInProgress, nSyncs, nWrites, acked, failedPush>>
vars == <<db, inv, syncInProgress, nSyncs, nWrites, acked, failedPush, fac>>


\* ------------------------------------------------------------ write hooks
\* A Dexie transaction object; monitoredBulkPut tags its own one.
PlainTx == EmptyObject
SyncTx == SetField(EmptyObject, "__syncTransaction", TRUE)
IsSyncTx(tx) == Has(tx, "__syncTransaction") /\ tx["__syncTransaction"]

\* createHook without the test of the transaction's tag: it stamps the
\* records of the pull merge as it stamps local writes.
createHook_IgnoresTag(object, tx, now, gen) ==
  LET o1 == SetField(object, "isSuitableForPush", 1)
      o2 == IF ~Has(o1, "uuid") THEN SetField(o1, "uuid", gen) ELSE o1
      o3 == SetField(SetField(o2, "updatedAt", now), "createdAt", now)
  IN  IF ~Has(o3, "active") THEN SetField(o3, "active", 1) ELSE o3

\* createHook that sets active without looking at the object's own value.
createHook_ActiveAlwaysOne(object, tx, now, gen) ==
  IF ~IsSyncTx(tx)
    THEN LET o1 == SetField(object, "isSuitableForPush", 1)
             o2 == IF ~Has(o1, "uuid") THEN SetField(o1, "uuid", gen) ELSE o1
             o3 == SetField(SetField(o2, "updatedAt", now), "createdAt", now)
         IN  SetField(o3, "active", 1)
    ELSE object

\* createHook: the object as the hook leaves it (it stamps the object in
\* place); `gen` is the value uuid() returns when the object brings no uuid.
createHook(object, tx, now, gen) ==
  IF ~IsSyncTx(tx)
    THEN LET o1 == SetField(object, "isSuitableForPush", 1)
             o2 == IF ~Has(o1, "uuid") THEN SetField(o1, "uuid", gen) ELSE o1
             o3 == SetField(SetField(o2, "updatedAt", now), "createdAt", now)
         IN  IF ~Has(o3, "active") THEN SetField(o3, "active", 1) ELSE o3
    ELSE object

\* updateHook without the test of the transaction's tag.
updateHook_IgnoresTag(modifications, obj, tx, now) ==
  IF DOMAIN modifications = {}
    THEN EmptyObject
    ELSE [isSuitableForPush |->
            IF Has(modifications, "__isSuitableForPush")
               /\ modifications["__isSuitableForPush"] = 0 THEN 0 ELSE 1,
          updatedAt |-> now,
          active |-> IF Has(modifications, "active")
                       THEN modifications["active"] ELSE 1]

\* updateHook: the additional modifications the hook returns (the empty
\* object stands for `undefined`: nothing is added).
updateHook(modifications, obj, tx, now) ==
  IF ~IsSyncTx(tx)
    THEN IF DOMAIN modifications = {}
           THEN EmptyObject
           ELSE [isSuitableForPush |->
                   IF Has(modifications, "__isSuitableForPush")
                      /\ modifications["__isSuitableForPush"] = 0 THEN 0 ELSE 1,
                 updatedAt |-> now,
                 active |-> IF Has(modifications, "active")
                              THEN modifications["active"] ELSE 1]
    ELSE EmptyObject

\* The keys the returned object sets to undefined (__isSuitableForPush).
updateHookUnset(modifications, tx) ==
  IF ~IsSyncTx(tx) /\ DOMAIN modifications # {}
    THEN {"__isSuitableForPush"} ELSE {}

\* ------------------------------------------------------ Dexie table calls
\* What put() hands the updating hook: the properties that differ.
Diff(old, new) ==
  [g \in {h \in DOMAIN new : ~Has(old, h) \/ old[h] # new[h]} |-> new[g]]

Insert(t, row) == [u \in DOMAIN t \cup {row.uuid} |-> IF u = row.uuid THEN row ELSE t[u]]

\* table.add(item): fails (ConstraintError, nothing written) on a known key.
TableAdd(t, item, tx, now, gen) ==
  LET o == createHook(item, tx, now, gen)
  IN  IF o.uuid \in DOMAIN t THEN t ELSE Insert(t, o)

\* table.update(key, changes): 0 rows when the key is unknown.
TableUpdate(t, key, changes, tx, now) ==
  IF key \notin DOMAIN t THEN t
  ELSE LET old == t[key]
           add == updateHook(changes, old, tx, now)
           new == Assign(Assign(old, changes), add)
           unset == updateHookUnset(changes, tx)
       IN  [t EXCEPT ![key] = [g \in DOMAIN new \ unset |-> new[g]]]

\* table.put(item): replaces the row under item.uuid, or creates it.
TablePut(t, item, tx, now, gen) ==
  IF Has(item, "uuid") /\ item.uuid \in DOMAIN t
    THEN LET old == t[item.uuid]
             add == updateHook(Diff(old, item), old, tx, now)
         IN  [t EXCEPT ![item.uuid] = Assign(item, add)]
    ELSE Insert(t, createHook(item, tx, now, gen))

\* table.bulkPut(items): put() for each item, in array order.
RECURSIVE BulkPut(_, _, _, _, _)
BulkPut(t, items, tx, now, gen) ==
  IF items = << >> THEN t
  ELSE BulkPut(TablePut(t, Head(items), tx, now, gen), Tail(items), tx, now, gen)

\* .where("isSuitableForPush").equals(1).toArray()
DirtyRows(t) ==
  {t[u] : u \in {k \in DOMAIN t :
                   Has(t[k], "isSuitableForPush") /\ t[k].isSuitableForPush = 1}}

\* .orderBy("syncRevision").last()?.syncRevision; -1 stands for undefined
\* (rows without a syncRevision are not in the index).
Max(S) == CHOOSE x \in S : \A y \in S : y <= x
LastSyncRevision(t) ==
  LET rs == {t[u].syncRevision : u \in {k \in DOMAIN t : Has(t[k], "syncRevision")}}
  IN  IF rs = {} THEN -1 ELSE Max(rs)

\* ------------------------------------------------------------- the server
\* A response of fetch(): the promise rejects (transport failure), or it
\* resolves with a status and a body; json() rejects on a body that does not
\* parse (Garbage), else gives the object `json`.
Reject == [kind |-> "reject"]
Http(status, body) == [kind |-> "http", status |-> status, body |-> body]
Json(o) == [parses |-> TRUE, json |-> o]
Garbage == [parses |-> FALSE, json |-> EmptyObject]

Codes == {TryLaterCode, 7}
Statuses == {HttpOk, 500}

\* {"success": s, "error-code": c}; c = 0 leaves "error-code" out.
ErrorBody(s, c) ==
  LET b == SetField(EmptyObject, "success", s)
  IN  IF c = 0 THEN b ELSE SetField(b, "error-code", c)
ErrorBodies == {Json(ErrorBody(FALSE, c)) : c \in Codes \cup {0}}

\* ---- push responses.  "rejected-objects" maps an object key to the reason;
\* "rejected-fields" maps an object key to an object whose values are arrays of
\* field names (modelled by the sequence Object.values() gives).
RejKeys == {"c1", "c2"}
FieldArrays == { << >>, << <<"name">> >>, << <<"name">>, <<"val">> >>, << << >> >> }
RejectedObjectsMaps == {[k \in S |-> "rejected"] : S \in {{}, {"c1"}, {"c2"}}}
RejectedFieldsMaps ==
  {EmptyObject} \cup {[k \in {key} |-> fa] : key \in RejKeys, fa \in FieldArrays}
AcceptBody(ro, rf) ==
  [g \in {"success", "rejected-objects", "rejected-fields"} |->
     CASE g = "success" -> TRUE
       [] g = "rejected-objects" -> ro
       [] OTHER -> rf]
AcceptResponses ==
  {Http(HttpOk, Json(AcceptBody(ro, rf))) :
     ro \in RejectedObjectsMaps, rf \in RejectedFieldsMaps}
\* The push responses the server gives in the behaviours: every kind of
\* failure, and of the accepting ones those that reject at most one key.
PushResponses ==
  {Reject}
  \cup {Http(st, b) : st \in Statuses, b \in ErrorBodies \cup {Garbage}}
  \cup {r \in AcceptResponses :
          \/ DOMAIN r.body.json["rejected-objects"] = {}
          \/ DOMAIN r.body.json["rejected-fields"] = {}}

\* new SyncManager(model, dao, apiUrl, syncRejectionWhitelist)
rejectionWhitelist == {"c2", "name"}

\* Array.prototype.flat() on an array of arrays.
RECURSIVE Flat(_)
Flat(arrays) == IF arrays = << >> THEN << >> ELSE Head(arrays) \o Flat(Tail(arrays))
Range(seq) == {seq[k] : k \in DOMAIN seq}

\* ---- pull responses.  body.data is the JSON text of {entity: [record]}; the
\* server sends each identifier at most once per entity.
ServerRecords(e) ==
  {[uuid |-> u, val |-> v, syncRevision |-> r, active |-> 1,
    createdAt |-> ServerTime, updatedAt |-> ServerTime] :
      u \in UuidsOf(e), v \in Vals, r \in Revs}
Batches(e) ==
  {<< >>} \cup {<<r>> : r \in ServerRecords(e)}
  \cup {p \in {<<r1, r2>> : r1 \in ServerRecords(e), r2 \in ServerRecords(e)} :
          p[1].uuid # p[2].uuid}
PullDatas ==
  UNION {[S -> UNION {Batches(e) : e \in S}] : S \in SUBSET Entities}
RECURSIVE Sum(_, _)
Sum(f, S) == IF S = {} THEN 0 ELSE LET x == CHOOSE y \in S : TRUE IN f[x] + Sum(f, S \ {x})
WellFormedData(d) ==
  /\ \A e \in DOMAIN d : d[e] \in Batches(e)
  /\ Sum([e \in DOMAIN d |-> Len(d[e])], DOMAIN d) <= MaxBatch
DataBody(text) ==
  Json([g \in {"success", "data"} |-> IF g = "success" THEN TRUE ELSE text])
BadText == [parses |-> FALSE, json |-> EmptyObject]
\* Data whose merge fails part-way: after a record that can be stored comes
\* one whose uuid is no valid key (InvalidKey stands for null, a boolean, ...),
\* in the same table or in another one.
InvalidKey == "?"
BadRecord ==
  [uuid |-> InvalidKey, val |-> "a", syncRevision |-> 0, active |-> 1,
   createdAt |-> ServerTime, updatedAt |-> ServerTime]
FailingDatas ==
  {[e \in {"Client"} |-> <<r, BadRecord>>] : r \in ServerRecords("Client")}
  \cup {[e \in Entities |-> IF e = "Client" THEN <<r>> ELSE <<BadRecord>>] :
           r \in ServerRecords("Client")}
PullResponses ==
  {Reject}
  \cup {Http(st, b) : st \in Statuses, b \in ErrorBodies \cup {Garbage}}
  \cup {Http(500, DataBody(Json(EmptyObject))), Http(HttpOk, DataBody(BadText))}
  \cup {Http(HttpOk, DataBody(Json(d))) : d \in {x \in PullDatas : WellFormedData(x)}}
  \cup {Http(HttpOk, DataBody(Json(d))) : d \in FailingDatas}

\* ------------------------------------------------------------ SyncManager
\* What a phase hands back: it returned {success}, or it threw `error`.
Returned(success) == [threw |-> FALSE, success |-> success, error |-> EmptyObject]
Threw(error) == [threw |-> TRUE, success |-> FALSE, error |-> error]

\* errorContent?.["error-code"] || -1
CodeOf(parses, content) ==
  IF parses /\ Has(content, "error-code") /\ content["error-code"] # 0
    THEN content["error-code"] ELSE -1

\* new DatabaseSyncError(.., {pushPayload, error, type: "push", code}); the
\* English message `error` is left out.
PushSyncError(pushBody, code) ==
  [name |-> "DatabaseSyncError", type |-> "push", pushPayload |-> pushBody, code |-> code]
PullSyncError(code) == [name |-> "DatabaseSyncError", type |-> "pull", code |-> code]
ConflictError(pushBody, data) ==
  [name |-> "SyncConflictError", pushPayload |-> pushBody,
   rejectedFields |-> data["rejected-fields"],
   rejectedObjects |-> data["rejected-objects"]]
\* What fetch() rejects with, what json() / JSON.parse() reject with, and
\* what bulkPut() rejects with.
TransportError == [name |-> "TypeError"]
ParseError == [name |-> "SyntaxError"]
BulkError == [name |-> "BulkError"]

\* _syncPush, lines 37-56: one entity's dirty rows without their dirty flag.
ReadPushable(t) == {DeleteField(r, "isSuitableForPush") : r \in DirtyRows(t)}

\* The payload without the filter of line 58-60: every entity is a key.
PushBodyOf_KeepsEmpty(pushable) == pushable

\* _syncPush, lines 58-77: the entities that returned rows, keyed by name.
PushBodyOf(pushable) ==
  [e \in {x \in DOMAIN pushable : pushable[x] # {}} |-> pushable[e]]

checkedRejectedObjects(data, wl) ==
  {key \in DOMAIN data["rejected-objects"] : key \notin wl}

\* The check of the rejected fields without the filter on the field names.
checkedRejectedFields_AnyField(data, wl) ==
  {key \in DOMAIN data["rejected-fields"] : key \notin wl}

checkedRejectedFields(data, wl) ==
  {key \in DOMAIN data["rejected-fields"] :
     LET rejectedNotWhitelistedFields ==
           SelectSeq(Flat(data["rejected-fields"][key]), LAMBDA f : f \notin wl)
     IN  key \notin wl /\ Len(rejectedNotWhitelistedFields) # 0}

\* The push phase reporting the try-later answer as {success: true}.
PushOutcome_SoftIsSuccess(resp, wl, pushBody) ==
  IF resp.kind = "reject" THEN Threw(TransportError)
  ELSE IF resp.status # HttpOk
    THEN IF resp.body.parses /\ Has(resp.body.json, "error-code")
            /\ resp.body.json["error-code"] = TryLaterCode
           THEN Returned(TRUE)
           ELSE Threw(PushSyncError(pushBody, CodeOf(resp.body.parses, resp.body.json)))
  ELSE IF ~resp.body.parses THEN Threw(ParseError)
  ELSE LET data == resp.body.json IN
       IF ~(Has(data, "success") /\ data["success"])
         THEN Threw(PushSyncError(pushBody, CodeOf(TRUE, data)))
       ELSE IF checkedRejectedObjects(data, wl) # {} \/ checkedRejectedFields(data, wl) # {}
         THEN Threw(ConflictError(pushBody, data))
         ELSE Returned(TRUE)

\* _syncPush, lines 81-166: what the push phase makes of the response.
PushOutcome(resp, wl, pushBody) ==
  IF resp.kind = "reject" THEN Threw(TransportError)
  ELSE IF resp.status # HttpOk
    THEN IF resp.body.parses /\ Has(resp.body.json, "error-code")
            /\ resp.body.json["error-code"] = TryLaterCode
           THEN Returned(FALSE)
           ELSE Threw(PushSyncError(pushBody, CodeOf(resp.body.parses, resp.body.json)))
  ELSE IF ~resp.body.parses THEN Threw(ParseError)
  ELSE LET data == resp.body.json IN
       IF ~(Has(data, "success") /\ data["success"])
         THEN Threw(PushSyncError(pushBody, CodeOf(TRUE, data)))
       ELSE IF checkedRejectedObjects(data, wl) # {} \/ checkedRejectedFields(data, wl) # {}
         THEN Threw(ConflictError(pushBody, data))
         ELSE Returned(TRUE)

\* _syncPull, lines 194-198: the cursor for a last revision (-1: undefined).
CursorOf(lastSyncRevision) ==
  IF lastSyncRevision # -1 /\ lastSyncRevision # 0 THEN lastSyncRevision + 1 ELSE 0

\* _syncPull, lines 213-229: the parsed data, or what is thrown.
PullOutcome(resp) ==
  IF resp.kind = "reject" THEN Threw(TransportError)
  ELSE LET parses == resp.body.parses
           body == resp.body.json
       IN  IF resp.status # HttpOk \/ ~parses \/ ~(Has(body, "success") /\ body["success"])
             THEN Threw(PullSyncError(CodeOf(parses, body)))
           ELSE IF ~body["data"].parses THEN Threw(ParseError)
           ELSE Returned(TRUE)

\* monitoredBulkPut: one "rw!" transaction over the tables named in the data,
\* tagged __syncTransaction; each record's dirty flag is set to 0, then bulkPut.
\* bulkPut rejects when one of the records cannot be stored; the rejection is
\* not caught inside the transaction, which therefore aborts and rolls back.
MarkClean(items) == [k \in DOMAIN items |-> SetField(items[k], "isSuitableForPush", 0)]
BulkPutFails(items) == \E k \in DOMAIN items : items[k].uuid = InvalidKey
MergeFails(entitiesToPush) ==
  \E e \in DOMAIN entitiesToPush : BulkPutFails(entitiesToPush[e])

\* The merge without the transaction around it: the tables whose bulkPut
\* succeeds keep their records although another table's bulkPut failed.
monitoredBulkPut_NotAtomic(store, entitiesToPush, now, gen) ==
  [e \in DOMAIN store |->
     IF e \in DOMAIN entitiesToPush /\ ~BulkPutFails(entitiesToPush[e])
       THEN BulkPut(store[e], MarkClean(entitiesToPush[e]), SyncTx, now, gen)
       ELSE store[e]]

monitoredBulkPut(store, entitiesToPush, now, gen) ==
  IF MergeFails(entitiesToPush) THEN store
  ELSE [e \in DOMAIN store |->
          IF e \in DOMAIN entitiesToPush
            THEN BulkPut(store[e], MarkClean(entitiesToPush[e]), SyncTx, now, gen)
            ELSE store[e]]

\* ---------------------------------------------------- a sync() invocation
\* pc: "idle" (not running: never called, or settled), "pushRead" (awaiting the
\* reads of the dirty rows), "pushWait" (push request in flight), "pullRead"
\* (awaiting the reads of the last revisions), "pullWait" (pull request in
\* flight).  result/error: how the promise sync() returned has settled.
\* pushPhase, pullSent and wrote are history: how far the push phase of this
\* invocation got, whether its pull request was sent, and whether a local
\* write happened while it ran.
Pcs == {"idle", "pushRead", "pushWait", "pullRead", "pullWait"}
NoInv ==
  [pc |-> "idle", skipPush |-> FALSE, skipPull |-> FALSE, forcePullAll |-> FALSE,
   shouldSkipPull |-> FALSE, toRead |-> {}, pushable |-> EmptyObject,
   pushBody |-> EmptyObject, revs |-> EmptyObject, cursor |-> EmptyObject,
   result |-> "none", error |-> EmptyObject,
   pushPhase |-> "none", pullSent |-> FALSE, wrote |-> FALSE, prior |-> FALSE]

SyncOptions == [skipPush : BOOLEAN, skipPull : BOOLEAN, forcePullAll : BOOLEAN]

\* sync(), lines 280-282: the promise settles; `finally` has run.
\* Its locals are gone; what is kept is the outcome and the history.
\* prior (history): this or an earlier invocation was given an option, or its
\* push failed softly.
Settled(st, result, error) ==
  [NoInv EXCEPT !.result = result, !.error = error, !.pushPhase = st.pushPhase,
                !.pullSent = st.pullSent, !.wrote = st.wrote,
                !.prior = \/ st.prior
                          \/ st.skipPush \/ st.skipPull \/ st.forcePullAll
                          \/ st.pushPhase = "soft"]

\* sync() keeping the decision to skip the pull from one invocation to the next.
NewInvocation_Sticky(prev, syncOptions) ==
  [NoInv EXCEPT !.skipPush = syncOptions.skipPush, !.skipPull = syncOptions.skipPull,
                !.forcePullAll = syncOptions.forcePullAll,
                !.shouldSkipPull = syncOptions.skipPull \/ prev.prior,
                !.result = "pending", !.prior = prev.prior]

\* sync(syncOptions), lines 255-262: the locals of a new invocation come from
\* its own syncOptions; nothing of the invocation before (prev) is read.
NewInvocation(prev, syncOptions) ==
  [NoInv EXCEPT !.skipPush = syncOptions.skipPush, !.skipPull = syncOptions.skipPull,
                !.forcePullAll = syncOptions.forcePullAll,
                !.shouldSkipPull = syncOptions.skipPull,
                !.result = "pending", !.prior = prev.prior]

\* _syncPull, lines 203-212: the pull request goes out with these cursors.
SendPull(st, entityLastRevisions) ==
  [st EXCEPT !.pc = "pullWait", !.cursor = entityLastRevisions, !.pullSent = TRUE,
             !.toRead = {}, !.revs = EmptyObject]

\* _syncPull, lines 170-192, up to its first await.
StartPull(st) ==
  IF st.forcePullAll
    THEN SendPull(st, [e \in Entities |-> 0])
    ELSE [st EXCEPT !.pc = "pullRead", !.toRead = Entities, !.revs = EmptyObject]

\* sync(), lines 275-279: what follows the push phase.
AfterPush(st) ==
  IF ~st.shouldSkipPull THEN StartPull(st) ELSE Settled(st, "resolved", EmptyObject)

\* sync() going on to the pull phase without awaiting the push it started.
PushSent_NotAwaited(st, pushBody) ==
  StartPull([st EXCEPT !.pushBody = pushBody, !.pushPhase = "inflight",
                       !.toRead = {}, !.pushable = EmptyObject])

\* _syncPush, lines 62-90, after the reads: nothing to push, or the request
\* goes out and the phase awaits the response.
PushSent(st, pushBody) ==
  [st EXCEPT !.pc = "pushWait", !.pushBody = pushBody, !.pushPhase = "inflight",
             !.toRead = {}, !.pushable = EmptyObject]

\* sync(), lines 266-270: the push phase returned {success}.
PushReturned(st, success, phase) ==
  AfterPush([st EXCEPT !.shouldSkipPull = st.shouldSkipPull \/ ~success,
                       !.pushPhase = phase,
                       !.toRead = {}, !.pushable = EmptyObject])

\* _syncPush, lines 81-166, then sync(): the invocation after the response.
PushResponded(st, resp, wl) ==
  LET out == PushOutcome(resp, wl, st.pushBody)
  IN  IF out.threw
        THEN Settled([st EXCEPT !.pushPhase = "failed"], "rejected", out.error)
        ELSE PushReturned(st, out.success, IF out.success THEN "accepted" ELSE "soft")

\* _syncPull, lines 213-232, then sync(): the invocation after the response.
PullResponded(st, resp) ==
  LET out == PullOutcome(resp)
  IN  IF out.threw THEN Settled(st, "rejected", out.error)
      ELSE IF MergeFails(resp.body.json["data"].json)
        THEN Settled(st, "rejected", BulkError)
        ELSE Settled(st, "resolved", EmptyObject)

\* _syncPull, lines 229-231: the store after the response.
PullMerged(store, resp, now, gen) ==
  IF PullOutcome(resp).threw THEN store
  ELSE monitoredBulkPut(store, resp.body.json["data"].json, now, gen)

\* sync() without the `finally`: the flag is cleared only when sync() resolves.
Step_NoFinally(i, new) ==
  /\ inv' = [inv EXCEPT ![i] = new]
  /\ syncInProgress' = IF new.pc = "idle" /\ new.result = "resolved" THEN FALSE ELSE TRUE

\* The invocation moves on to `new`; `finally` clears the flag when it settled.
Step(i, new) ==
  /\ inv' = [inv EXCEPT ![i] = new]
  /\ syncInProgress' = IF new.pc = "idle" THEN FALSE ELSE TRUE

PushBuilt(st, pushBody) ==
  IF DOMAIN pushBody = {} THEN PushReturned(st, TRUE, "trivial")
                          ELSE PushSent(st, pushBody)

\* ---------------------------------------------------------------- history
IsDirty(row) == Has(row, "isSuitableForPush") /\ row.isSuitableForPush = 1
Rows == UNION {{e} \X UuidsOf(e) : e \in Entities}

\* The server did not accept the push: anything but 200 with success = true.
PushFailed(resp) ==
  ~(/\ resp.kind = "http"
    /\ resp.status = HttpOk
    /\ resp.body.parses
    /\ Has(resp.body.json, "success")
    /\ resp.body.json["success"])

\* A rejection the whitelist wl does not cover: a rejected object whose key is
\* not in wl, or rejected fields under a key not in wl with a name not in wl.
FieldNamesOf(arrays) == UNION {Range(arrays[k]) : k \in DOMAIN arrays}
Uncovered(ro, rf, wl) ==
  \/ \E key \in DOMAIN ro : key \notin wl
  \/ \E key \in DOMAIN rf : key \notin wl /\ \E f \in FieldNamesOf(rf[key]) : f \notin wl

\* The push did not go through: the server did not accept it, or it rejected
\* objects or fields that the whitelist wl does not cover (a conflict).
PushNotAccepted(resp, wl) ==
  \/ PushFailed(resp)
  \/ Uncovered(resp.body.json["rejected-objects"], resp.body.json["rejected-fields"], wl)

\* The rows of an accepted payload that are still, unchanged, the local rows.
AckedBy(pushBody) ==
  {p \in Rows :
     /\ p[1] \in DOMAIN pushBody
     /\ p[2] \in DOMAIN db[p[1]]
     /\ DeleteField(db[p[1]][p[2]], "isSuitableForPush") \in pushBody[p[1]]}

\* The pull went through: the response was accepted and its merge committed.
PullApplied(resp) ==
  ~PullOutcome(resp).threw /\ ~MergeFails(resp.body.json["data"].json)

MergedKeys(data) ==
  UNION {{<<e, data[e][k].uuid>> : k \in DOMAIN data[e]} : e \in DOMAIN data}

\* ====================================================== the Database facade
\* The facade is one record: the fields of Database, the fields of each
\* ViewModel, and the redux state their reducers keep.  Its operations are
\* functions from facade to facade, so that the calls one operation makes
\* (register, dispatch, the store's subscribers, reload) compose in the order
\* the code makes them.
MaxMounts == 2       \* mounts of one view model at the same time
MaxInFlight == 1     \* reloads of one view model in flight at the same time

VMs == {"vmA", "vmB"}
\* vmA is constructed without a stateSelector and with an async binding; vmB
\* has a stateSelector (the external slice itself) and a plain function as
\* binding, which may throw when it is called.
HasSelector(v) == v = "vmB"
MayThrow(v) == v = "vmB"
\* What vmB's binding does when a step calls it: it returns (a promise, or a
\* value), or it throws.
Hows == {"async", "throw"}
\* The tables a view model declares to read.
readTables(v) == IF v = "vmA" THEN {"Client"} ELSE {"Order"}
Exts == {0, 1}
Undefined == -1

Err(name) == [name |-> name]
NoError == EmptyObject

\* database.ts lines 54-60 (lastSynchronization and progressPercent stay 0).
initState == [status |-> "uninitialized", error |-> NoError, hasVersionChanged |-> FALSE]

\* Database.getReducer()
databaseReducer(state, action) ==
  CASE action.type = "DATABASE_INITIALIZED" ->
         [initState EXCEPT !.status = "online", !.hasVersionChanged = FALSE]
    [] action.type = "DATABASE_INITIALIZATION_ERROR" ->
         [initState EXCEPT !.status = "uninitialized", !.error = action.payload]
    [] action.type = "DATABASE_SYNC_ERROR" ->
         [state EXCEPT !.error = action.payload, !.status = "offline"]
    [] action.type = "DATABASE_VERSION_CHANGED" ->
         [state EXCEPT !.hasVersionChanged = TRUE]
    [] OTHER -> state

\* ViewModel constructor: the fields and the initial redux state.
NewViewModel ==
  [bound |-> FALSE, mountCount |-> 0, lastReloadState |-> Undefined,
   pending |-> FALSE, error |-> NoError, result |-> "null",
   inFlight |-> 0, doomed |-> 0, stateSelector |-> FALSE]

\* ViewModel.getReducer() (parameters are not passed in this model).
viewModelReducer(state, action) ==
  CASE action.type = "RESET_STATE" ->
         [state EXCEPT !.pending = FALSE, !.error = NoError, !.result = "null"]
    [] action.type = "FETCH_PENDING" -> [state EXCEPT !.pending = TRUE]
    [] action.type = "FETCH_ERROR" ->
         [state EXCEPT !.error = action.error, !.pending = FALSE]
    [] action.type = "FETCH_SUCCESS" ->
         [state EXCEPT !.error = NoError, !.pending = FALSE, !.result = action.payload]
    [] OTHER -> state

\* The facade after the view models were constructed; no Database yet.
\* registered: the keys of registeredViewModels in insertion order.
\* model: the document whose translation this.model and this.validationSchema
\* hold ("none": undefined).  storedHash: the hash in localStorage (0: none).
\* declared: the hash of the schema given to dao.version().stores() (0: none).
\* created: the hash of the schema the database in IndexedDB was created
\* with (0: there is no database).  wiped is history: the running initialize()
\* deleted the database in its version check; prevModel: the document the
\* model came from before the running initialize() translated its own;
\* opened: the document and the indexes option of the last initialize() that
\* opened the storage.
\* dropped is history: the tables of the batches that were delivered while
\* changes were frozen.
\* threw / reloaded / dispatched are history of the last step: whether an
\* exception reached the caller, how many reloads of each view model the step
\* started, and the types of the database actions it dispatched.
NewFacade ==
  [store |-> FALSE, dbState |-> initState, isInitialized |-> FALSE,
   isOpen |-> FALSE, listeners |-> 0, isChangesFrozen |-> FALSE,
   registered |-> << >>, vm |-> [v \in VMs |-> [NewViewModel EXCEPT !.stateSelector = HasSelector(v)]],
   ext |-> 0,
   initPc |-> "idle", nInits |-> 0, storedHash |-> 0, schemaHash |-> 0,
   truncate |-> FALSE, indexes |-> EmptyObject, model |-> "none",
   declared |-> 0, created |-> 0, wiped |-> FALSE, prevModel |-> "none",
   opened |-> [model |-> "none", indexes |-> EmptyObject],
   changed |-> {}, dropped |-> {}, probe |-> EmptyObject,
   threw |-> NoError, reloaded |-> [v \in VMs |-> 0], dispatched |-> {}]

Begin(F) ==
  [F EXCEPT !.threw = NoError, !.reloaded = [v \in VMs |-> 0], !.dispatched = {}]
Throw(F, error) == [F EXCEPT !.threw = error]
IsRegistered(F, v) == \E k \in DOMAIN F.registered : F.registered[k] = v

RECURSIVE NotifyFrom(_, _, _, _), getReloadAction(_, _, _)

\* store.dispatch(action) for a view-model action of v: its reducer, then the
\* store's subscribers (subscribeToStoreChanges, lines 132-150), which walk
\* the registered view models; a subscriber that throws ends the walk and the
\* exception leaves dispatch().
DispatchVm(F, v, action, how) ==
  LET F1 == [F EXCEPT !.vm[v] = viewModelReducer(@, action)]
  IN  IF F1.store THEN NotifyFrom(F1, F1.registered, 1, how) ELSE F1

\* NotifyFrom without the test of line 136: a view model that declares no
\* stateSelector is compared and reloaded like one that does.
NotifyFrom_NoSelectorTest(F, names, k, how) ==
  IF k > Len(names) \/ F.threw # NoError THEN F
  ELSE LET v == names[k]
       IN  IF IsRegistered(F, v) /\ F.vm[v].lastReloadState # F.ext
             THEN NotifyFrom(
                    getReloadAction([F EXCEPT !.vm[v].lastReloadState = F.ext], v, how),
                    names, k + 1, how)
             ELSE NotifyFrom(F, names, k + 1, how)

NotifyFrom(F, names, k, how) ==
  IF k > Len(names) \/ F.threw # NoError THEN F
  ELSE LET v == names[k]
       IN  IF IsRegistered(F, v) /\ F.vm[v].stateSelector /\ F.vm[v].lastReloadState # F.ext
             THEN NotifyFrom(
                    getReloadAction([F EXCEPT !.vm[v].lastReloadState = F.ext], v, how),
                    names, k + 1, how)
             ELSE NotifyFrom(F, names, k + 1, how)

\* ViewModel.getReloadAction()(dispatch), with ViewModel.reload; `how` is what
\* the binding does when it is called: "throw" (a plain function throwing) or
\* "async" (it returns a promise, or a value).
getReloadAction(F, v, how) ==
  LET F0 == [F EXCEPT !.reloaded[v] = @ + 1]
      F1 == DispatchVm(F0, v, [type |-> "FETCH_PENDING"], how)
  IN  IF F1.threw # NoError THEN F1
      ELSE IF ~F1.vm[v].bound THEN [F1 EXCEPT !.vm[v].doomed = @ + 1]
      ELSE LET selectedState == IF F1.vm[v].stateSelector /\ F1.store THEN F1.ext ELSE Undefined
               F2 == [F1 EXCEPT !.vm[v].lastReloadState = selectedState]
           IN  IF how = "throw" /\ MayThrow(v)
                 THEN Throw(F2, Err("BindingError"))
                 ELSE [F2 EXCEPT !.vm[v].inFlight = @ + 1]

\* Database.registerViewModel
registerViewModel(F, v, how) ==
  LET F1 == IF IsRegistered(F, v) THEN F
            ELSE [F EXCEPT !.registered = Append(@, v)]
  IN  IF F1.isInitialized /\ F1.store
        THEN LET F2 == IF F1.vm[v].stateSelector
                         THEN [F1 EXCEPT !.vm[v].lastReloadState = F1.ext] ELSE F1
             IN  getReloadAction(F2, v, how)
        ELSE F1

\* Database.unregisterViewModel
unregisterViewModel(F, v) ==
  [F EXCEPT !.registered = SelectSeq(@, LAMBDA n : n # v)]

\* ViewModel.initialize(database)
initializeViewModel(F, v, how) ==
  LET F1 == [F EXCEPT !.vm[v].bound = TRUE]
  IN  IF F1.vm[v].mountCount > 0 THEN registerViewModel(F1, v, how) ELSE F1

\* ViewModel.mount()
mount(F, v, how) ==
  LET F1 == IF F.vm[v].mountCount = 0 /\ F.vm[v].bound
              THEN registerViewModel(F, v, how) ELSE F
  IN  IF F1.threw # NoError THEN F1
      ELSE [F1 EXCEPT !.vm[v].mountCount = @ + 1]

\* ViewModel.unmount()
unmount(F, v) ==
  IF ~F.vm[v].bound THEN Throw(F, Err("Error"))
  ELSE LET F1 == [F EXCEPT !.vm[v].mountCount = @ - 1]
       IN  IF F1.vm[v].mountCount = 0 THEN unregisterViewModel(F1, v) ELSE F1

\* Database.reloadChangedViewModels
RECURSIVE ReloadFrom(_, _, _, _, _)
ReloadFrom(F, names, k, changedObjectStores, how) ==
  IF k > Len(names) \/ F.threw # NoError THEN F
  ELSE LET v == names[k]
           doesChangeAffectViewModel ==
             \E objectStore \in changedObjectStores : objectStore \in readTables(v)
       IN  IF IsRegistered(F, v) /\ doesChangeAffectViewModel
             THEN ReloadFrom(getReloadAction(F, v, how), names, k + 1,
                             changedObjectStores, how)
             ELSE ReloadFrom(F, names, k + 1, changedObjectStores, how)
reloadChangedViewModels(F, changedObjectStores, how) ==
  IF ~F.isOpen \/ ~F.store THEN F
  ELSE ReloadFrom(F, F.registered, 1, changedObjectStores, how)

\* changesListener without the test of the changes-frozen flag.
changesListener_IgnoresFrozen(F, tables, partial, how) ==
  IF partial \/ tables = {} THEN F
  ELSE reloadChangedViewModels(F, tables, how)

\* One "changes" listener (lines 245-251) called with a batch.
changesListener(F, tables, partial, how) ==
  IF F.isChangesFrozen \/ partial \/ tables = {} THEN F
  ELSE reloadChangedViewModels(F, tables, how)

\* dao.on("changes"): every registered listener is called with the batch; an
\* exception of one ends the delivery.
RECURSIVE Deliver(_, _, _, _, _)
Deliver(F, n, tables, partial, how) ==
  IF n = 0 \/ F.threw # NoError THEN F
  ELSE Deliver(changesListener(F, tables, partial, how), n - 1, tables, partial, how)

\* new Database(viewModels, options), lines 117-123: every view model is bound.
RECURSIVE BindFrom(_, _, _)
BindFrom(F, names, how) ==
  IF names = << >> \/ F.threw # NoError THEN F
  ELSE BindFrom(initializeViewModel(F, Head(names), how), Tail(names), how)
viewModels == <<"vmA", "vmB">>
newDatabase(F, how) == BindFrom(F, viewModels, how)

\* Database.subscribeToStoreChanges(store)
subscribeToStoreChanges(F) == [F EXCEPT !.store = TRUE]

\* ------------------------------------------- the schema document translated
\* String.prototype.charCodeAt over the names the documents of this model use.
charCodes(s) ==
  CASE s = "Client" -> <<67, 108, 105, 101, 110, 116>>
    [] s = "Order" -> <<79, 114, 100, 101, 114>>
    [] s = "$$uuid" -> <<36, 36, 117, 117, 105, 100>>
    [] s = "createdAt" -> <<99, 114, 101, 97, 116, 101, 100, 65, 116>>
    [] s = "updatedAt" -> <<117, 112, 100, 97, 116, 101, 100, 65, 116>>
    [] s = "isSuitableForPush" ->
         <<105, 115, 83, 117, 105, 116, 97, 98, 108, 101, 70, 111, 114, 80, 117, 115, 104>>
    [] s = "syncRevision" -> <<115, 121, 110, 99, 82, 101, 118, 105, 115, 105, 111, 110>>
    [] s = "orders" -> <<111, 114, 100, 101, 114, 115>>
    [] s = "client" -> <<99, 108, 105, 101, 110, 116>>
    [] s = "name" -> <<110, 97, 109, 101>>
    [] s = "vip" -> <<118, 105, 112>>
    [] s = "val" -> <<118, 97, 108>>

\* hashCode: hash = (hash << 5) - hash + char, cut to 32 bits after every
\* character.  The hash is kept as two 16-bit halves <<high, low>> so that no
\* intermediate value leaves the 32-bit range.
hashStep(hash, char) ==
  LET low == hash[2] * 31 + char
      high == hash[1] * 31 + (low \div 65536)
  IN  <<high % 65536, low % 65536>>

\* The loop over the characters from..to, evaluated by halves, the first
\* half's hash being computed before the second half starts (binding it as
\* the element of a set makes the evaluation do so).
RECURSIVE hashLoop(_, _, _, _)
hashLoop(input, from, to, hash) ==
  IF from > to THEN hash
  ELSE IF from = to THEN hashStep(hash, input[from])
  ELSE LET mid == (from + to) \div 2
       IN  CHOOSE result \in {hashLoop(input, mid + 1, to, left) :
                                left \in {hashLoop(input, from, mid, hash)}} : TRUE

\* The result is the signed 32-bit number.
hashCode(input) ==
  LET hash == hashLoop(input, 1, Len(input), <<0, 0>>)
  IN  IF hash[1] >= 32768 THEN (hash[1] - 65536) * 65536 + hash[2]
      ELSE hash[1] * 65536 + hash[2]

\* Array.prototype.join(",") over strings given as character codes.
RECURSIVE join(_)
join(parts) ==
  IF DOMAIN parts = {} THEN << >>
  ELSE IF Len(parts) = 1 THEN Head(parts)
  ELSE Head(parts) \o <<44>> \o join(Tail(parts))

Quoted(codes) == <<34>> \o codes \o <<34>>

\* JSON.stringify of the storage schema, an object of strings whose keys are
\* in insertion order (none of the names needs escaping).
stringify(schema) ==
  <<123>> \o join([k \in DOMAIN schema |->
                     Quoted(charCodes(schema[k].key)) \o <<58>> \o Quoted(schema[k].value)])
          \o <<125>>

numberTypes == {"Double", "Integer 64", "Integer 16", "Integer 32", "Float"}
stringTypes == {"String", "UUID", "URI"}

\* getAttributeConstraints(attributeValues): type and constraints of one
\* attribute declaration.
getAttributeConstraints(attributeValues) ==
  LET type == IF attributeValues.attributeType = "Date" THEN "date"
              ELSE IF attributeValues.attributeType \in stringTypes THEN "string"
              ELSE IF attributeValues.attributeType \in numberTypes THEN "number"
              ELSE "boolean"
      c1 == [required |-> ~(Has(attributeValues, "optional")
                            /\ attributeValues["optional"] = "YES")]
      c2 == IF Has(attributeValues, "minValueString")
              THEN SetField(c1, IF type = "number" THEN "minValue" ELSE "minLength",
                            attributeValues["minValueString"])
              ELSE c1
      c3 == IF Has(attributeValues, "maxValueString")
              THEN SetField(c2, IF type = "number" THEN "maxValue" ELSE "maxLength",
                            attributeValues["maxValueString"])
              ELSE c2
      c4 == IF Has(attributeValues, "regularExpressionString")
              THEN SetField(c3, "regex", attributeValues["regularExpressionString"])
              ELSE c3
  IN  [type |-> type, constraints |-> c4]

\* The schema documents of the model, as fast-xml-parser returns them: an
\* entity is {attr, attribute[], relationship[]}.  Every entity declares the
\* bookkeeping attributes.  docB is docA with one more relationship; docC is
\* docA with one constraint changed.
Bookkeeping ==
  << [attr |-> [name |-> "uuid", attributeType |-> "UUID"]],
     [attr |-> [name |-> "active", attributeType |-> "Boolean"]],
     [attr |-> [name |-> "createdAt", attributeType |-> "Date"]],
     [attr |-> [name |-> "updatedAt", attributeType |-> "Date"]] >>
ClientEntity(maxLength) ==
  [attr |-> [name |-> "Client", syncable |-> "YES"],
   attribute |-> Bookkeeping \o
                 << [attr |-> [name |-> "vip", attributeType |-> "Boolean",
                               optional |-> "YES"]],
                    [attr |-> [name |-> "name", attributeType |-> "String",
                               minValueString |-> 1, maxValueString |-> maxLength]] >>,
   relationship |-> << [attr |-> [name |-> "orders", optional |-> "YES",
                                  destinationEntity |-> "Order", toMany |-> "YES"]] >>]
OrderEntity(relationship) ==
  [attr |-> [name |-> "Order", syncable |-> "YES"],
   attribute |-> Bookkeeping \o
                 << [attr |-> [name |-> "val", attributeType |-> "Integer 32",
                               minValueString |-> 0, maxValueString |-> 2]] >>,
   relationship |-> relationship]
ToClient ==
  << [attr |-> [name |-> "client", optional |-> "YES", destinationEntity |-> "Client"]] >>

XmlDocs == {"noRoot", "docA", "docB", "docC"}
\* parser.parse(xmlData, options); a document without a <model> root parses
\* to an object without the property `model`.
parse(xmlData) ==
  CASE xmlData = "docA" -> [model |-> [entity |-> <<ClientEntity(2), OrderEntity(<< >>)>>]]
    [] xmlData = "docB" -> [model |-> [entity |-> <<ClientEntity(2), OrderEntity(ToClient)>>]]
    [] xmlData = "docC" -> [model |-> [entity |-> <<ClientEntity(3), OrderEntity(<< >>)>>]]
    [] OTHER -> EmptyObject

\* modelParser(xmlData), lines 98-170.  Objects whose key order matters
\* (entities, attributes) are sequences in insertion order.  A value that is
\* not a string (the response has no `model`) makes parser.parse throw.
AttributeSchemas(entity) ==
  [k \in DOMAIN entity.attribute |->
     LET attr == entity.attribute[k].attr
     IN  [name |-> attr.name,
          optional |-> Has(attr, "optional") /\ attr["optional"] = "YES",
          attributeType |-> attr.attributeType, indexed |-> FALSE, toMany |-> FALSE]]
   \o [k \in DOMAIN entity.relationship |->
         LET attr == entity.relationship[k].attr
         IN  [name |-> attr.name,
              optional |-> Has(attr, "optional") /\ attr["optional"] = "YES",
              attributeType |-> "relationship", indexed |-> FALSE,
              toMany |-> Has(attr, "toMany") /\ attr["toMany"] = "YES"]]

EntityValidation(entity) ==
  [name |-> entity.attr.name,
   attributes |-> [k \in DOMAIN entity.attribute |->
                     LET attr == entity.attribute[k].attr
                         tc == getAttributeConstraints(attr)
                     IN  [name |-> attr.name, type |-> tc.type,
                          constraints |-> tc.constraints]],
   relationships |-> [k \in DOMAIN entity.relationship |->
                        LET attr == entity.relationship[k].attr
                        IN  [name |-> attr.name,
                             destinationEntity |-> attr.destinationEntity,
                             toMany |-> Has(attr, "toMany") /\ attr["toMany"] = "YES"]]]

modelParser(xmlData) ==
  IF xmlData = "undefined"
    THEN [threw |-> TRUE, model |-> [version |-> 1, entities |-> << >>],
          validationSchema |-> << >>]
    ELSE LET jsonObj == parse(xmlData)
             entities == IF Has(jsonObj, "model") /\ Has(jsonObj["model"], "entity")
                           THEN jsonObj["model"]["entity"] ELSE << >>
         IN  [threw |-> FALSE,
              model |-> [version |-> 1,
                         entities |-> [k \in DOMAIN entities |->
                                         [name |-> entities[k].attr.name,
                                          syncable |-> Has(entities[k].attr, "syncable")
                                                       /\ entities[k].attr["syncable"] = "YES",
                                          attributes |-> AttributeSchemas(entities[k])]]],
              validationSchema |-> [k \in DOMAIN entities |-> EntityValidation(entities[k])]]

\* The `indexes` option of initialize(): additional indexes per entity.
NoIndexes == EmptyObject
IndexOptions == {NoIndexes, [Client |-> <<"name">>]}

\* initialize(), lines 178-217: the storage schema, one string of index
\* names per syncable entity, in the order of the model's entities.
IndexNames(entity, indexes) ==
  LET declared == SelectSeq(entity.attributes,
                            LAMBDA a : a.attributeType = "relationship"
                                       \/ (a.indexed /\ a.name # "uuid"))
      own == [k \in DOMAIN declared |->
                IF declared[k].attributeType = "relationship" /\ declared[k].toMany
                  THEN <<42>> \o charCodes(declared[k].name)
                  ELSE charCodes(declared[k].name)]
      extra == IF Has(indexes, entity.name) THEN indexes[entity.name] ELSE << >>
  IN  [k \in 1 .. 5 |-> charCodes(<<"$$uuid", "createdAt", "updatedAt",
                                    "isSuitableForPush", "syncRevision">>[k])]
        \o own \o [k \in DOMAIN extra |-> charCodes(extra[k])]

storageSchema(model, indexes) ==
  LET syncable == SelectSeq(model.entities, LAMBDA entity : entity.syncable)
  IN  [k \in DOMAIN syncable |->
         [key |-> syncable[k].name, value |-> join(IndexNames(syncable[k], indexes))]]

\* lines 219-223: receivedSchemaHash, computed once for every document and
\* option of the model.
schemaHashes ==
  {<<xmlData, indexes,
     hashCode(stringify(storageSchema(modelParser(xmlData).model, indexes)))>> :
     xmlData \in XmlDocs, indexes \in IndexOptions}
receivedSchemaHash(xmlData, indexes) ==
  (CHOOSE entry \in schemaHashes : entry[1] = xmlData /\ entry[2] = indexes)[3]

\* ------------------------------------------------- the write guard: values
\* The values of an object's properties, by their JavaScript type.  A string
\* is a sequence of characters over Chars; a property may also be present
\* with the value undefined.
Chars == {"a", "0"}
Num(n) == [t |-> "number", n |-> n]
Bool(b) == [t |-> "boolean", b |-> b]
Str(s) == [t |-> "string", s |-> s]
Arr(a) == [t |-> "array", a |-> a]
Null == [t |-> "null"]
Undef == [t |-> "undefined"]

\* objectToAdd[name]
Get(o, f) == IF Has(o, f) THEN o[f] ELSE Undef
\* typeof value
typeOf(value) == IF value.t \in {"null", "array"} THEN "object" ELSE value.t
isNullish(value) == value.t \in {"undefined", "null"}
isNumericBoolean(value) == value.t = "number" /\ value.n \in {0, 1}
\* isISODate: a string of 24 characters (Number.isNaN of a Date object is
\* false for every string).
isISODate(value) == value.t = "string" /\ Len(value.s) = 24

\* value > bound and value < bound for a number bound: the value is converted
\* to a number first; a string of zeros (or the empty string) converts to 0,
\* any other string over Chars to NaN, for which both comparisons are false.
IsNumber(value) ==
  \/ value.t \in {"number", "boolean", "null"}
  \/ value.t = "string" /\ \A k \in DOMAIN value.s : value.s[k] = "0"
ToNumber(value) ==
  CASE value.t = "number" -> value.n
    [] value.t = "boolean" -> IF value.b THEN 1 ELSE 0
    [] OTHER -> 0
GreaterThan(value, bound) == IsNumber(value) /\ ToNumber(value) > bound
LessThan(value, bound) == IsNumber(value) /\ ToNumber(value) < bound
\* value.length > bound: only strings and arrays have a length.
LengthGreaterThan(value, bound) ==
  \/ value.t = "string" /\ Len(value.s) > bound
  \/ value.t = "array" /\ Len(value.a) > bound
\* new RegExp(regex).test(value) for the one pattern of the model, "^a+$".
RegExpTest(regex, value) ==
  value.t = "string" /\ value.s # << >> /\ \A k \in DOMAIN value.s : value.s[k] = "a"

\* constraints.x && ...: the constraint is present and not 0 (not "").
Truthy(constraints, x) ==
  Has(constraints, x) /\ constraints[x] # (IF x = "regex" THEN "" ELSE 0)

autoAddedAttributes == {"uuid", "active", "createdAt", "updatedAt"}

DatabaseValidationError(tableName, badAttribute, failedConstraint) ==
  [name |-> "DatabaseValidationError", tableName |-> tableName,
   badAttribute |-> badAttribute, failedConstraint |-> failedConstraint]

\* The first exception of a sequence of checks (NoError: none throws).
FirstError(errors) ==
  IF \A k \in DOMAIN errors : errors[k] = NoError THEN NoError
  ELSE errors[CHOOSE k \in DOMAIN errors :
                /\ errors[k] # NoError
                /\ \A j \in DOMAIN errors : j < k => errors[j] = NoError]

\* The callback without the throw for a missing required attribute.
AttributeError_NoRequired(tableName, objectToAdd, checkRequired, attribute) ==
  LET constraints == attribute.constraints
      type == attribute.type
      modelAttributeName == attribute.name
      attributeValue == Get(objectToAdd, modelAttributeName)
      Fails(failedConstraint) ==
        DatabaseValidationError(tableName, modelAttributeName, failedConstraint)
  IN  IF modelAttributeName \in autoAddedAttributes THEN NoError
      ELSE IF ~constraints.required
              /\ (~Has(objectToAdd, modelAttributeName) \/ isNullish(attributeValue))
        THEN NoError
      ELSE IF typeOf(attributeValue) # type
              /\ (IF type = "boolean" THEN ~isNumericBoolean(attributeValue)
                  ELSE IF type = "date" THEN ~isISODate(attributeValue)
                  ELSE TRUE)
        THEN Fails("typeError")
      ELSE IF Truthy(constraints, "maxValue")
              /\ GreaterThan(attributeValue, constraints["maxValue"])
        THEN Fails("maxValue")
      ELSE IF Truthy(constraints, "minValue")
              /\ LessThan(attributeValue, constraints["minValue"])
        THEN Fails("minValue")
      ELSE IF Truthy(constraints, "maxLength")
              /\ LengthGreaterThan(attributeValue, constraints["maxLength"])
        THEN Fails("maxLength")
      ELSE IF Truthy(constraints, "minLength")
              /\ LessThan(attributeValue, constraints["minLength"])
        THEN Fails("minLength")
      ELSE IF Truthy(constraints, "regex")
              /\ ~RegExpTest(constraints["regex"], attributeValue)
        THEN Fails("regex")
      ELSE NoError

\* validateDexie, lines 58-224: the callback of modelAttributes.forEach for
\* one attribute; what it throws.
AttributeError(tableName, objectToAdd, checkRequired, attribute) ==
  LET constraints == attribute.constraints
      type == attribute.type
      modelAttributeName == attribute.name
      attributeValue == Get(objectToAdd, modelAttributeName)
      Fails(failedConstraint) ==
        DatabaseValidationError(tableName, modelAttributeName, failedConstraint)
  IN  IF modelAttributeName \in autoAddedAttributes THEN NoError
      ELSE IF ~constraints.required
              /\ (~Has(objectToAdd, modelAttributeName) \/ isNullish(attributeValue))
        THEN NoError
      ELSE IF checkRequired /\ constraints.required
              /\ ~Has(objectToAdd, modelAttributeName)
        THEN Fails("required")
      ELSE IF typeOf(attributeValue) # type
              /\ (IF type = "boolean" THEN ~isNumericBoolean(attributeValue)
                  ELSE IF type = "date" THEN ~isISODate(attributeValue)
                  ELSE TRUE)
        THEN Fails("typeError")
      ELSE IF Truthy(constraints, "maxValue")
              /\ GreaterThan(attributeValue, constraints["maxValue"])
        THEN Fails("maxValue")
      ELSE IF Truthy(constraints, "minValue")
              /\ LessThan(attributeValue, constraints["minValue"])
        THEN Fails("minValue")
      ELSE IF Truthy(constraints, "maxLength")
              /\ LengthGreaterThan(attributeValue, constraints["maxLength"])
        THEN Fails("maxLength")
      ELSE IF Truthy(constraints, "minLength")
              /\ LessThan(attributeValue, constraints["minLength"])
        THEN Fails("minLength")
      ELSE IF Truthy(constraints, "regex")
              /\ ~RegExpTest(constraints["regex"], attributeValue)
        THEN Fails("regex")
      ELSE NoError

\* lines 233-303: what the check of one relationship field throws.
RelationError(tableName, objectToAdd, relationship) ==
  LET relationField == relationship.name
      relationFieldValue == Get(objectToAdd, relationField)
      Fails(failedConstraint) ==
        DatabaseValidationError(tableName, relationField, failedConstraint)
  IN  IF ~Has(objectToAdd, relationField) \/ isNullish(relationFieldValue) THEN NoError
      ELSE IF relationship.toMany
        THEN IF relationFieldValue.t # "array" THEN Fails("toMany")
             ELSE IF \E k \in DOMAIN relationFieldValue.a :
                       typeOf(relationFieldValue.a[k]) # "string"
               THEN Fails("toMany")
             ELSE NoError
      ELSE IF relationFieldValue.t = "array" THEN Fails("toOne")
      ELSE IF typeOf(relationFieldValue) # "string" THEN Fails("toOne")
      ELSE NoError

\* validationSchema[tableName]: undefined when the schema has no such entity.
NoTable == [name |-> "", attributes |-> << >>, relationships |-> << >>]
selectedTable(validationSchema, tableName) ==
  IF \E k \in DOMAIN validationSchema : validationSchema[k].name = tableName
    THEN validationSchema[CHOOSE k \in DOMAIN validationSchema :
                            validationSchema[k].name = tableName]
    ELSE NoTable

\* lines 305-319: a key of the object that is no attribute and no relationship
\* of the entity (the objects of the model have at most one such key).
UnknownKeyError(tableName, objectToAdd, table) ==
  LET allPossibleAttributes ==
        {table.relationships[k].name : k \in DOMAIN table.relationships}
          \cup {table.attributes[k].name : k \in DOMAIN table.attributes}
      unknown == DOMAIN objectToAdd \ allPossibleAttributes
  IN  IF unknown = {} THEN NoError
      ELSE DatabaseValidationError(tableName, CHOOSE key \in unknown : TRUE, "unknownKey")

\* validateDexie({tableName, objectToAdd, validationSchema, checkRequired}):
\* the error it throws, NoError when it returns.
validateDexie(tableName, objectToAdd, validationSchema, checkRequired) ==
  LET table == selectedTable(validationSchema, tableName)
  IN  FirstError(
        [k \in DOMAIN table.attributes |->
           AttributeError(tableName, objectToAdd, checkRequired, table.attributes[k])]
        \o [k \in DOMAIN table.relationships |->
              RelationError(tableName, objectToAdd, table.relationships[k])]
        \o <<UnknownKeyError(tableName, objectToAdd, table)>>)

\* ---- Database.initialize(), one operator per stretch between two awaits.
MaxInits == 2        \* initialize() calls per behaviour

\* store.dispatch(action) for an action of the database reducer.
DispatchDb(F, action, how) ==
  LET F1 == [F EXCEPT !.dbState = databaseReducer(@, action),
                       !.dispatched = @ \cup {action.type}]
  IN  IF F1.store THEN NotifyFrom(F1, F1.registered, 1, how) ELSE F1

\* lines 318-323: the catch block; an exception of its dispatch rejects
\* initialize().
initializeFailed(F, err, how) ==
  [DispatchDb(F, [type |-> "DATABASE_INITIALIZATION_ERROR", payload |-> err], how)
     EXCEPT !.initPc = "idle"]

\* lines 157, 318: an exception thrown inside the try block is caught.
Caught(F, how) ==
  IF F.threw = NoError THEN F
  ELSE initializeFailed([F EXCEPT !.threw = NoError], F.threw, how)

\* The options of initialize(): truncate and indexes.
InitOptions == [truncate : BOOLEAN, indexes : IndexOptions]
PlainInit == [truncate |-> FALSE, indexes |-> NoIndexes]

\* lines 154-163: up to the first await.
initializeStart(F, options) ==
  IF ~F.store THEN Throw(F, Err("Error"))
  ELSE [F EXCEPT !.nInits = @ + 1, !.truncate = options.truncate,
                 !.indexes = options.indexes, !.wiped = FALSE,
                 !.initPc = IF options.truncate THEN "delete" ELSE "fetch"]

\* lines 160-163: dao.delete() settled (it closes the database first).
initializeDeleted(F, ok, how) ==
  IF ok THEN [F EXCEPT !.isOpen = FALSE, !.created = 0, !.initPc = "fetch"]
        ELSE initializeFailed(F, Err("DeleteError"), how)

\* lines 163-172: the schema request settled; resp is "reject" (transport
\* failure), "refused" (status not 200 or content type not JSON) or "ok".
initializeFetched(F, resp, how) ==
  CASE resp = "reject" -> initializeFailed(F, Err("TypeError"), how)
    [] resp = "refused" -> initializeFailed(F, Err("Error"), how)
    [] OTHER -> [F EXCEPT !.initPc = "json"]

\* lines 238-303: close, declare the schema, add the changes listener and the
\* hooks, start to open.
initializeSetup(F) ==
  [F EXCEPT !.isOpen = FALSE, !.declared = F.schemaHash, !.listeners = @ + 1,
            !.initPc = "open"]

\* The bodies the server may answer with: one json() rejects on, one without
\* the property `model`, and one per schema document.
SchemaDocs ==
  {[parses |-> FALSE, model |-> "undefined"]}
    \cup {[parses |-> TRUE, model |-> m] : m \in {"undefined"} \cup XmlDocs}
Body(xmlData) == [parses |-> TRUE, model |-> xmlData]

\* initializeParsed without the version check of lines 224-236: the storage
\* is opened under the new schema over whatever database there is.
initializeParsed_NoWipe(F, doc, how) ==
  IF ~doc.parses THEN initializeFailed(F, Err("SyntaxError"), how)
  ELSE IF modelParser(doc.model).threw THEN initializeFailed(F, Err("TypeError"), how)
  ELSE initializeSetup([F EXCEPT !.model = doc.model, !.prevModel = F.model,
                                 !.schemaHash = receivedSchemaHash(doc.model, F.indexes)])

\* lines 172-236: response.json() settled, the document is translated and
\* the hash of the storage schema is compared with the stored one.
initializeParsed(F, doc, how) ==
  IF ~doc.parses THEN initializeFailed(F, Err("SyntaxError"), how)
  ELSE IF modelParser(doc.model).threw THEN initializeFailed(F, Err("TypeError"), how)
  ELSE LET F1 == [F EXCEPT !.model = doc.model, !.prevModel = F.model,
                           !.schemaHash = receivedSchemaHash(doc.model, F.indexes)]
       IN  IF F1.storedHash # F1.schemaHash /\ F1.storedHash # 0
             THEN LET F2 == DispatchDb(F1, [type |-> "DATABASE_VERSION_CHANGED"], how)
                  IN  IF F2.threw # NoError THEN Caught(F2, how)
                      ELSE [F2 EXCEPT !.initPc =
                                        IF ~F2.isOpen THEN "wipeOpen" ELSE "wipeDelete"]
             ELSE initializeSetup(F1)

\* lines 231-234: dao.open() before the wipe settled.
initializeWipeOpened(F, ok, how) ==
  IF ok THEN [F EXCEPT !.isOpen = TRUE, !.initPc = "wipeDelete"]
        ELSE initializeFailed(F, Err("OpenError"), how)

\* lines 234-236: dao.delete() of the wipe settled.
initializeWipeDeleted(F, ok, how) ==
  IF ok THEN initializeSetup([F EXCEPT !.isOpen = FALSE, !.created = 0, !.wiped = TRUE])
        ELSE initializeFailed(F, Err("DeleteError"), how)

\* initializeOpened storing the hash of the schema without the indexes option.
initializeOpened_HashWithoutIndexes(F, ok, how) ==
  IF ok
    THEN LET F1 == [F EXCEPT !.isOpen = TRUE,
                             !.storedHash = receivedSchemaHash(F.model, NoIndexes),
                             !.created = IF @ = 0 THEN F.declared ELSE @,
                             !.opened = [model |-> F.model, indexes |-> F.indexes]]
             F2 == DispatchDb(F1, [type |-> "DATABASE_INITIALIZED"], how)
         IN  IF F2.threw # NoError THEN Caught(F2, how)
             ELSE [F2 EXCEPT !.isInitialized = TRUE, !.initPc = "idle"]
    ELSE initializeFailed(F, Err("DatabaseOpenError"), how)

\* lines 302-317: dao.open() settled.
initializeOpened(F, ok, how) ==
  IF ok
    THEN LET F1 == [F EXCEPT !.isOpen = TRUE, !.storedHash = F.schemaHash,
                             !.created = IF @ = 0 THEN F.declared ELSE @,
                             !.opened = [model |-> F.model, indexes |-> F.indexes]]
             F2 == DispatchDb(F1, [type |-> "DATABASE_INITIALIZED"], how)
         IN  IF F2.threw # NoError THEN Caught(F2, how)
             ELSE [F2 EXCEPT !.isInitialized = TRUE, !.initPc = "idle"]
    ELSE initializeFailed(F, Err("DatabaseOpenError"), how)

\* The facade SyncManager works with: constructed, given the store, and
\* initialize() has succeeded on a first schema document.
OnlineFacade ==
  Begin(initializeOpened(
          initializeParsed(
            initializeFetched(
              initializeStart(
                subscribeToStoreChanges(newDatabase(NewFacade, "async")), PlainInit),
              "ok", "async"),
            Body("docA"), "async"),
          TRUE, "async"))

\* ------------------------------------------------------------- the actions
Init ==
  /\ db = [e \in Entities |-> EmptyObject]
  /\ inv = [i \in Invs |-> NoInv]
  /\ syncInProgress = FALSE
  /\ nSyncs = 0
  /\ nWrites = 0
  /\ acked = {}
  /\ failedPush = EmptyObject
  /\ fac = OnlineFacade

NoteWrite(e, u) ==
  /\ nWrites' = nWrites + 1
  /\ inv' = [i \in DOMAIN inv |->
               IF inv[i].pc = "idle" THEN inv[i] ELSE [inv[i] EXCEPT !.wrote = TRUE]]
  /\ acked' = acked \ {<<e, u>>}
  /\ failedPush' = EmptyObject
  /\ UNCHANGED <<syncInProgress, nSyncs, fac>>

\* dao.table(e).safelyAdd(item) -> this.add(item), outside any sync transaction.
LocalAdd(e, u, v) ==
  /\ nWrites < MaxWrites
  /\ u \notin DOMAIN db[e]
  /\ \E item \in {[val |-> v], [uuid |-> u, val |-> v]} :
       db' = [db EXCEPT ![e] = TableAdd(db[e], item, PlainTx, LocalTime, u)]
  /\ NoteWrite(e, u)

\* dao.table(e).safelyUpdate(key, changes) -> this.update(key, changes).
LocalUpdate(e, u, v) ==
  /\ nWrites < MaxWrites
  /\ u \in DOMAIN db[e]
  /\ db' = [db EXCEPT ![e] = TableUpdate(db[e], u, [val |-> v], PlainTx, LocalTime)]
  /\ NoteWrite(e, u)

\* sync(syncOptions), lines 255-266 (273-279 with skipPush): up to the first await.
SyncCall(i, o) ==
  /\ nSyncs < MaxSyncs
  /\ inv[i].pc = "idle"
  /\ LET st == NewInvocation(inv[i], o)
     IN  IF ~o.skipPush
           THEN Step(i, [st EXCEPT !.pc = "pushRead", !.toRead = Entities,
                                   !.pushPhase = "reading"])
           ELSE Step(i, AfterPush([st EXCEPT !.pushPhase = "skipped"]))
  /\ nSyncs' = nSyncs + 1
  /\ failedPush' = IF o.skipPush THEN EmptyObject ELSE failedPush
  /\ UNCHANGED <<db, nWrites, acked, fac>>

\* The application waits for one sync() to settle before it calls the next.
SyncStart(i, o) ==
  /\ \A j \in Invs : inv[j].pc = "idle"
  /\ SyncCall(i, o)

\* _syncPush, lines 37-90: the read of entity e's dirty rows completes; after
\* the last one the payload is built and sent, or the phase succeeds trivially.
PushRead(i, e) ==
  /\ inv[i].pc = "pushRead"
  /\ e \in inv[i].toRead
  /\ LET st == inv[i]
         pushable == SetField(st.pushable, e, ReadPushable(db[e]))
     IN  IF st.toRead # {e}
           THEN Step(i, [st EXCEPT !.toRead = st.toRead \ {e}, !.pushable = pushable])
           ELSE Step(i, PushBuilt(st, PushBodyOf(pushable)))
  /\ UNCHANGED <<db, nSyncs, nWrites, acked, failedPush, fac>>

\* The push response arrives: _syncPush, lines 91-166, and sync() after it.
PushResponse(i, resp) ==
  /\ inv[i].pc = "pushWait"
  /\ Step(i, PushResponded(inv[i], resp, rejectionWhitelist))
  /\ acked' = IF PushNotAccepted(resp, rejectionWhitelist)
                THEN acked ELSE acked \cup AckedBy(inv[i].pushBody)
  /\ failedPush' = IF PushNotAccepted(resp, rejectionWhitelist) /\ ~inv[i].wrote
                     THEN [body |-> inv[i].pushBody, store |-> db] ELSE EmptyObject
  /\ UNCHANGED <<db, nSyncs, nWrites, fac>>

\* _syncPull, lines 182-212: the read of entity e's last revision completes;
\* after the last one the cursors are computed and the pull request is sent.
PullRead(i, e) ==
  /\ inv[i].pc = "pullRead"
  /\ e \in inv[i].toRead
  /\ LET st == inv[i]
         revs == SetField(st.revs, e, LastSyncRevision(db[e]))
     IN  IF st.toRead # {e}
           THEN Step(i, [st EXCEPT !.toRead = st.toRead \ {e}, !.revs = revs])
           ELSE Step(i, SendPull(st, [x \in Entities |-> CursorOf(revs[x])]))
  /\ UNCHANGED <<db, nSyncs, nWrites, acked, failedPush, fac>>

\* The pull response arrives: _syncPull, lines 213-231, monitoredBulkPut (one
\* transaction) and sync()'s finally.
PullResponse(i, resp) ==
  /\ inv[i].pc = "pullWait"
  /\ Step(i, PullResponded(inv[i], resp))
  /\ db' = PullMerged(db, resp, LocalTime, "c1")
  /\ acked' = IF PullApplied(resp) THEN acked \ MergedKeys(resp.body.json["data"].json)
                                   ELSE acked
  /\ UNCHANGED <<nSyncs, nWrites, failedPush, fac>>

Next ==
  \/ \E e \in Entities : \E u \in UuidsOf(e) : \E v \in Vals : LocalAdd(e, u, v)
  \/ \E e \in Entities : \E u \in UuidsOf(e) : \E v \in Vals : LocalUpdate(e, u, v)
  \/ \E i \in Invs : \E o \in SyncOptions : SyncStart(i, o)
  \/ \E i \in Invs : \E e \in Entities : PushRead(i, e)
  \/ \E i \in Invs : \E resp \in PushResponses : PushResponse(i, resp)
  \/ \E i \in Invs : \E e \in Entities : PullRead(i, e)
  \/ \E i \in Invs : \E resp \in PullResponses : PullResponse(i, resp)

Spec == Init /\ [][Next]_vars

\* ----------------------------------------------- the actions of the facade
\* The reloads in flight stay within the bound.
Bounded(F) ==
  \A v \in VMs : F.vm[v].inFlight <= MaxInFlight /\ F.vm[v].doomed <= 1

InitFacade ==
  /\ db = [e \in Entities |-> EmptyObject]
  /\ inv = [i \in Invs |-> NoInv]
  /\ syncInProgress = FALSE
  /\ nSyncs = 0
  /\ nWrites = 0
  /\ acked = {}
  /\ failedPush = EmptyObject
  /\ fac = NewFacade

\* How the promise of a reload of v may settle: vmA's binding is a query that
\* fulfils; vmB's may fulfil or reject.
Outcomes(v) == IF MayThrow(v) THEN {"fulfilled", "rejected"} ELSE {"fulfilled"}

FacadeStep(new) ==
  /\ Bounded(new)
  /\ fac' = new
  /\ UNCHANGED syncVars

NewDatabase(how) ==
  /\ \A v \in VMs : ~fac.vm[v].bound
  /\ FacadeStep(newDatabase(Begin(fac), how))

SubscribeToStoreChanges ==
  /\ \A v \in VMs : fac.vm[v].bound
  /\ ~fac.store
  /\ FacadeStep(subscribeToStoreChanges(Begin(fac)))

Mount(v, how) ==
  /\ fac.vm[v].mountCount < MaxMounts
  /\ FacadeStep(mount(Begin(fac), v, how))

\* unmount() is called once for each mount() that returned.
Unmount(v) ==
  /\ fac.vm[v].mountCount > 0
  /\ FacadeStep(unmount(Begin(fac), v))

\* store.dispatch(viewModel.getReloadAction()) by the application.
UserReload(v, how) ==
  /\ v \in VMs
  /\ FacadeStep(getReloadAction(Begin(fac), v, how))

\* The promise of a reload settles: view-model.ts lines 151-163.
ReloadSettles(v, outcome, how) ==
  /\ fac.vm[v].inFlight > 0
  /\ LET F == [Begin(fac) EXCEPT !.vm[v].inFlight = @ - 1]
     IN  FacadeStep(
           IF outcome = "fulfilled"
             THEN DispatchVm(F, v, [type |-> "FETCH_SUCCESS", payload |-> "data"], how)
             ELSE DispatchVm(F, v, [type |-> "FETCH_ERROR", error |-> Err("BindingError")],
                             how))

\* The rejected promise of a reload without a database reaches its catch.
ReloadRefused(v, how) ==
  /\ fac.vm[v].doomed > 0
  /\ FacadeStep(DispatchVm([Begin(fac) EXCEPT !.vm[v].doomed = @ - 1], v,
                           [type |-> "FETCH_ERROR", error |-> Err("NotRegistered")], how))

\* dexie-observable delivers a batch of changes of the open database.
ChangeBatch(tables, partial, how) ==
  /\ fac.listeners > 0
  /\ fac.isOpen
  /\ FacadeStep(Deliver(Begin(fac), fac.listeners, tables, partial, how))

SetChangesFrozen(isFrozen) ==
  /\ fac.isChangesFrozen # isFrozen
  /\ FacadeStep([Begin(fac) EXCEPT !.isChangesFrozen = isFrozen])

\* The application dispatches an action that changes the external slice.
ExternalChange(x, how) ==
  /\ fac.ext # x
  /\ LET F == [Begin(fac) EXCEPT !.ext = x]
     IN  FacadeStep(IF F.store THEN NotifyFrom(F, F.registered, 1, how) ELSE F)

InitializeStart(options) ==
  /\ fac.initPc = "idle"
  /\ fac.nInits < MaxInits
  /\ \A v \in VMs : fac.vm[v].bound
  /\ FacadeStep(initializeStart(Begin(fac), options))

InitializeDeleted(ok, how) ==
  /\ fac.initPc = "delete"
  /\ fac' = initializeDeleted(Begin(fac), ok, how)
  /\ Bounded(fac')
  /\ db' = IF ok THEN [e \in Entities |-> EmptyObject] ELSE db
  /\ UNCHANGED <<inv, syncInProgress, nSyncs, nWrites, acked, failedPush>>

InitializeFetched(resp, how) ==
  /\ fac.initPc = "fetch"
  /\ FacadeStep(initializeFetched(Begin(fac), resp, how))

InitializeParsed(doc, how) ==
  /\ fac.initPc = "json"
  /\ FacadeStep(initializeParsed(Begin(fac), doc, how))

InitializeWipeOpened(ok, how) ==
  /\ fac.initPc = "wipeOpen"
  /\ FacadeStep(initializeWipeOpened(Begin(fac), ok, how))

InitializeWipeDeleted(ok, how) ==
  /\ fac.initPc = "wipeDelete"
  /\ fac' = initializeWipeDeleted(Begin(fac), ok, how)
  /\ Bounded(fac')
  /\ db' = IF ok THEN [e \in Entities |-> EmptyObject] ELSE db
  /\ UNCHANGED <<inv, syncInProgress, nSyncs, nWrites, acked, failedPush>>

InitializeOpened(ok, how) ==
  /\ fac.initPc = "open"
  /\ FacadeStep(initializeOpened(Begin(fac), ok, how))

\* The application calls initialize() once, without truncate.
InitializeOnce ==
  /\ fac.nInits = 0
  /\ InitializeStart(PlainInit)

\* The facade with its view models; initialize() meets a server and a storage
\* that work, and changes are never frozen.
NextFacade ==
  \/ \E how \in Hows : NewDatabase(how)
  \/ SubscribeToStoreChanges
  \/ \E v \in VMs : \E how \in Hows : Mount(v, how)
  \/ \E v \in VMs : Unmount(v)
  \/ \E v \in VMs : \E how \in Hows : UserReload(v, how)
  \/ \E v \in VMs : \E outcome \in Outcomes(v) : \E how \in Hows :
       ReloadSettles(v, outcome, how)
  \/ \E v \in VMs : \E how \in Hows : ReloadRefused(v, how)
  \/ \E tables \in SUBSET Entities : \E partial \in BOOLEAN : \E how \in Hows :
       ChangeBatch(tables, partial, how)
  \/ \E x \in Exts : \E how \in Hows : ExternalChange(x, how)
  \/ InitializeOnce
  \/ \E how \in Hows : InitializeFetched("ok", how)
  \/ \E doc \in {Body("docA"), Body("docB")} : \E how \in Hows :
       InitializeParsed(doc, how)
  \/ \E how \in Hows : InitializeOpened(TRUE, how)

SpecFacade == InitFacade /\ [][NextFacade]_vars

\* initialize() with every way its steps can fail, next to view models that
\* are mounted and react to the external slice.
NextInit ==
  \/ \E how \in Hows : NewDatabase(how)
  \/ SubscribeToStoreChanges
  \/ \E v \in VMs : \E how \in Hows : Mount(v, how)
  \/ \E x \in Exts : \E how \in Hows : ExternalChange(x, how)
  \/ \E v \in VMs : \E how \in Hows : ReloadSettles(v, "fulfilled", how)
  \/ \E tables \in SUBSET Entities : \E partial \in BOOLEAN : \E how \in Hows :
       ChangeBatch(tables, partial, how)
  \/ \E isFrozen \in BOOLEAN : SetChangesFrozen(isFrozen)
  \/ \E truncate \in BOOLEAN :
       InitializeStart([truncate |-> truncate, indexes |-> NoIndexes])
  \/ \E ok \in BOOLEAN : \E how \in Hows : InitializeDeleted(ok, how)
  \/ \E resp \in {"reject", "refused", "ok"} : \E how \in Hows : InitializeFetched(resp, how)
  \/ \E doc \in SchemaDocs \ {Body("noRoot"), Body("docC")} : \E how \in Hows :
       InitializeParsed(doc, how)
  \/ \E ok \in BOOLEAN : \E how \in Hows : InitializeWipeOpened(ok, how)
  \/ \E ok \in BOOLEAN : \E how \in Hows : InitializeWipeDeleted(ok, how)
  \/ \E ok \in BOOLEAN : \E how \in Hows : InitializeOpened(ok, how)

SpecInit == InitFacade /\ [][NextInit]_vars

\* A local create while the storage is open.
OpenAdd(e, u, v) ==
  /\ fac.isOpen
  /\ LocalAdd(e, u, v)

\* initialize() called again and again on one Database, with every document
\* and option, on a storage that holds rows; vmB is mounted, so that the
\* store has a subscriber that may throw.
InitSchema ==
  /\ db = [e \in Entities |-> EmptyObject]
  /\ inv = [i \in Invs |-> NoInv]
  /\ syncInProgress = FALSE
  /\ nSyncs = 0
  /\ nWrites = 0
  /\ acked = {}
  /\ failedPush = EmptyObject
  /\ fac = subscribeToStoreChanges(newDatabase(NewFacade, "async"))

NextSchema ==
  \/ \E how \in Hows : Mount("vmB", how)
  \/ \E e \in Entities : \E u \in UuidsOf(e) : \E v \in Vals : OpenAdd(e, u, v)
  \/ \E options \in InitOptions : InitializeStart(options)
  \/ \E ok \in BOOLEAN : \E how \in Hows : InitializeDeleted(ok, how)
  \/ \E resp \in {"refused", "ok"} : \E how \in Hows : InitializeFetched(resp, how)
  \/ \E doc \in SchemaDocs : \E how \in Hows : InitializeParsed(doc, how)
  \/ \E ok \in BOOLEAN : \E how \in Hows : InitializeWipeOpened(ok, how)
  \/ \E ok \in BOOLEAN : \E how \in Hows : InitializeWipeDeleted(ok, how)
  \/ \E ok \in BOOLEAN : \E how \in Hows : InitializeOpened(ok, how)

SpecSchema == InitSchema /\ [][NextSchema]_vars

\* ------------------------------------- the guarded writes of a Dexie table
\* this.validationSchema of the Database, by the document it was translated
\* from (undefined until initialize() has translated one).
validationSchemas == [xmlData \in XmlDocs |-> modelParser(xmlData).validationSchema]
HasValidationSchema(F) == F.model \in XmlDocs

\* The tables with committed changes that dexie-observable has still to
\* deliver to the "changes" listeners (F.changed).
Changed(F, before, after, tableName) ==
  IF before = after THEN F ELSE [F EXCEPT !.changed = @ \cup {tableName}]

\* table.add(item) and table.update(key, changes) of the open database, in a
\* transaction of their own.
add(F, store, tableName, item, now, gen) ==
  LET t == TableAdd(store[tableName], item, PlainTx, now, gen)
  IN  [fac |-> Changed(F, store[tableName], t, tableName),
       db |-> [store EXCEPT ![tableName] = t]]
update(F, store, tableName, key, changes, now) ==
  LET t == TableUpdate(store[tableName], key, changes, PlainTx, now)
  IN  [fac |-> Changed(F, store[tableName], t, tableName),
       db |-> [store EXCEPT ![tableName] = t]]

\* safelyAdd with the validation after the add.
safelyAdd_WritesFirst(F, store, tableName, item, now, gen) ==
  LET error == IF HasValidationSchema(F)
                 THEN validateDexie(tableName, item, validationSchemas[F.model], TRUE)
                 ELSE NoError
      written == add(F, store, tableName, item, now, gen)
  IN  IF error # NoError THEN [fac |-> Throw(written.fac, error), db |-> written.db]
      ELSE written

\* Table.prototype.safelyAdd(item)
safelyAdd(F, store, tableName, item, now, gen) ==
  LET error == IF HasValidationSchema(F)
                 THEN validateDexie(tableName, item, validationSchemas[F.model], TRUE)
                 ELSE NoError
  IN  IF error # NoError THEN [fac |-> Throw(F, error), db |-> store]
      ELSE add(F, store, tableName, item, now, gen)

\* Table.prototype.safelyUpdate(key, changes)
safelyUpdate(F, store, tableName, key, changes, now) ==
  LET error == IF HasValidationSchema(F)
                 THEN validateDexie(tableName, changes, validationSchemas[F.model], FALSE)
                 ELSE NoError
  IN  IF error # NoError THEN [fac |-> Throw(F, error), db |-> store]
      ELSE update(F, store, tableName, key, changes, now)

\* The payloads of the guarded writes: property values are typed, the
\* bookkeeping fields are as Dexie stores them.
A1 == Str(<<"a">>)
A2 == Str(<<"a", "a">>)
A3 == Str(<<"a", "a", "a">>)
ClientItems ==
  { EmptyObject,
    [name |-> A1],
    [name |-> A3],
    [vip |-> Num(1)],
    [name |-> A2, vip |-> Bool(TRUE)],
    [name |-> A1, nick |-> A1],
    [uuid |-> "c1", active |-> 0, createdAt |-> ServerTime, name |-> A2,
     vip |-> Num(0), orders |-> Arr(<<Str(<<"0">>)>>)] }
OrderItems == {EmptyObject, [val |-> Num(1)], [val |-> Num(3)]}
Items(e) == IF e = "Client" THEN ClientItems ELSE OrderItems
\* Change-sets: the items, and change-sets that carry the updating hook's
\* __isSuitableForPush.
Unpushed(changes) == SetField(changes, "__isSuitableForPush", 0)
ChangeSets(e) ==
  IF e = "Client"
    THEN ClientItems \cup {Unpushed([name |-> A2]), [active |-> 0]}
    ELSE OrderItems \cup {Unpushed([val |-> Num(2)])}

\* What the server returns for a pull, in the typed representation.
PulledRecords(e) ==
  IF e = "Client"
    THEN {[uuid |-> "c1", name |-> A1, active |-> 1, syncRevision |-> 1,
           createdAt |-> ServerTime, updatedAt |-> ServerTime],
          [uuid |-> "c2", name |-> A2, vip |-> Num(1), active |-> 0, syncRevision |-> 2,
           createdAt |-> ServerTime, updatedAt |-> ServerTime]}
    ELSE {[uuid |-> "o1", val |-> Num(2), active |-> 1, syncRevision |-> 1,
           createdAt |-> ServerTime, updatedAt |-> ServerTime]}
PulledDatas ==
  {[Client |-> <<c>>] : c \in PulledRecords("Client")}
    \cup {[Client |-> <<c>>, Order |-> <<o>>] :
            c \in PulledRecords("Client"), o \in PulledRecords("Order")}

\* vmA is mounted on the initialized database.
InitGuard ==
  /\ db = [e \in Entities |-> EmptyObject]
  /\ inv = [i \in Invs |-> NoInv]
  /\ syncInProgress = FALSE
  /\ nSyncs = 0
  /\ nWrites = 0
  /\ acked = {}
  /\ failedPush = EmptyObject
  /\ fac = mount(OnlineFacade, "vmA", "async")

GuardStep(result) ==
  /\ nWrites < MaxWrites
  /\ nWrites' = nWrites + 1
  /\ fac' = result.fac
  /\ db' = result.db
  /\ UNCHANGED <<inv, syncInProgress, nSyncs, acked, failedPush>>

\* dao.table(e).safelyAdd(item); gen is what uuid() would return.
SafelyAdd(e, item, gen) ==
  /\ gen \notin DOMAIN db[e]
  /\ GuardStep(safelyAdd(Begin(fac), db, e, item, LocalTime, gen))

\* dao.table(e).safelyUpdate(key, changes)
SafelyUpdate(e, key, changes) ==
  /\ key \in DOMAIN db[e]
  /\ GuardStep(safelyUpdate(Begin(fac), db, e, key, changes, LaterTime))

\* dao.table(e).update(key, changes), Dexie's own method.
Update(e, key, changes) ==
  /\ key \in DOMAIN db[e]
  /\ GuardStep(update(Begin(fac), db, e, key, changes, LaterTime))

\* The merge of one pull response (SyncManager.monitoredBulkPut).
Merge(data) ==
  /\ nSyncs < MaxSyncs
  /\ nSyncs' = nSyncs + 1
  /\ db' = monitoredBulkPut(db, data, LocalTime, "c2")
  /\ fac' = [Begin(fac) EXCEPT !.changed = @ \cup {e \in Entities : db'[e] # db[e]}]
  /\ UNCHANGED <<inv, syncInProgress, nWrites, acked, failedPush>>

\* dexie-observable delivers the committed changes to the listeners.
ChangesObserved(how) ==
  /\ fac.changed # {}
  /\ fac.listeners > 0
  /\ FacadeStep(Deliver([Begin(fac) EXCEPT
                          !.changed = {},
                          !.dropped = IF fac.isChangesFrozen THEN @ \cup fac.changed ELSE @],
                        fac.listeners, fac.changed, FALSE, how))

NextGuard ==
  \/ \E e \in Entities : \E item \in Items(e) : \E gen \in UuidsOf(e) :
       SafelyAdd(e, item, gen)
  \/ \E e \in Entities : \E key \in UuidsOf(e) : \E changes \in ChangeSets(e) :
       SafelyUpdate(e, key, changes)
  \/ \E e \in Entities : \E key \in UuidsOf(e) : \E changes \in ChangeSets(e) :
       Update(e, key, changes)
  \/ \E data \in PulledDatas : Merge(data)
  \/ \E how \in Hows : ChangesObserved(how)
  \/ \E how \in Hows : ReloadSettles("vmA", "fulfilled", how)

SpecGuard == InitGuard /\ [][NextGuard]_vars

\* The guarded writes next to an application that freezes and unfreezes the
\* changes, and batches that dexie-observable delivers as partial or empty.
NextFreeze ==
  \/ \E item \in ClientItems : \E gen \in UuidsOf("Client") : SafelyAdd("Client", item, gen)
  \/ \E key \in UuidsOf("Client") : \E changes \in ChangeSets("Client") :
       SafelyUpdate("Client", key, changes)
  \/ \E data \in PulledDatas : Merge(data)
  \/ \E how \in Hows : ChangesObserved(how)
  \/ \E how \in Hows : ReloadSettles("vmA", "fulfilled", how)
  \/ \E isFrozen \in BOOLEAN : SetChangesFrozen(isFrozen)
  \/ \E tables \in SUBSET Entities : \E how \in Hows : ChangeBatch(tables, TRUE, how)
  \/ \E how \in Hows : ChangeBatch({}, FALSE, how)

SpecFreeze == InitGuard /\ [][NextFreeze]_vars

\* -------------------------------- validateDexie over declared attributes
\* One call of validateDexie for an entity "T" declared in a schema document
\* and a payload (F.probe holds the arguments and what the call threw).
MaxBound == 2        \* largest minValueString / maxValueString declared
\* The reload thunks called in a behaviour of the racing reloads.
MaxReloads == 3
Bounds == {Undefined} \cup (0 .. MaxBound)

\* <attribute name=.. attributeType=.. optional=.. minValueString=..
\* maxValueString=../> as fast-xml-parser returns it.
RawAttribute(name, attributeType, optional, min, max) ==
  LET a1 == [name |-> name, attributeType |-> attributeType]
      a2 == IF optional THEN SetField(a1, "optional", "YES") ELSE a1
      a3 == IF min # Undefined THEN SetField(a2, "minValueString", min) ELSE a2
      a4 == IF max # Undefined THEN SetField(a3, "maxValueString", max) ELSE a3
  IN  [attr |-> a4]
WithBounds(name, attributeType) ==
  {RawAttribute(name, attributeType, optional, b[1], b[2]) :
     optional \in BOOLEAN,
     b \in {c \in Bounds \X Bounds :
              c[1] = Undefined \/ c[2] = Undefined \/ c[1] <= c[2]}}
RawAttributes ==
  {RawAttribute("vip", "Boolean", optional, Undefined, Undefined) : optional \in BOOLEAN}
    \cup WithBounds("val", "Integer 32")
    \cup WithBounds("name", "String")
\* Entities of one attribute, and entities of two where the second one is the
\* String attribute without bounds.
DeclaredAttributes ==
  {<<a>> : a \in RawAttributes}
    \cup {<<a, RawAttribute("name", "String", optional, Undefined, Undefined)>> :
            a \in {RawAttribute("vip", "Boolean", TRUE, Undefined, Undefined),
                   RawAttribute("val", "Integer 32", FALSE, Undefined, Undefined)},
            optional \in BOOLEAN}
RawEntity(attributes) ==
  [attr |-> [name |-> "T"], attribute |-> Bookkeeping \o attributes,
   relationship |-> << >>]

\* The values of a payload's property.
Values ==
  {Num(n) : n \in -1 .. MaxBound + 1} \cup {Bool(b) : b \in BOOLEAN}
    \cup {Str(s) : s \in {<< >>, <<"a">>, <<"a", "a">>, <<"a", "a", "a">>,
                          <<"0">>, <<"0", "0">>}}
    \cup {Null, Undef}
NamesOf(attributes) == {attributes[k].attr.name : k \in DOMAIN attributes}
Payloads(attributes) ==
  UNION {[present -> Values] : present \in SUBSET NamesOf(attributes)}

NewProbe(attributes, objectToAdd, checkRequired) ==
  [attributes |-> attributes, objectToAdd |-> objectToAdd,
   checkRequired |-> checkRequired, returned |-> FALSE, error |-> NoError]

InitValidate ==
  /\ db = [e \in Entities |-> EmptyObject]
  /\ inv = [i \in Invs |-> NoInv]
  /\ syncInProgress = FALSE
  /\ nSyncs = 0
  /\ nWrites = 0
  /\ acked = {}
  /\ failedPush = EmptyObject
  /\ \E attributes \in DeclaredAttributes : \E objectToAdd \in Payloads(attributes) :
       \E checkRequired \in BOOLEAN :
         fac = [NewFacade EXCEPT
                  !.probe = NewProbe(attributes, objectToAdd, checkRequired)]

\* validateDexie({tableName: "T", objectToAdd, validationSchema, checkRequired})
\* with the validation schema modelParser builds from the declaration.
Validate ==
  /\ ~fac.probe.returned
  /\ fac' = [fac EXCEPT
               !.probe.returned = TRUE,
               !.probe.error =
                 validateDexie("T", fac.probe.objectToAdd,
                               <<EntityValidation(RawEntity(fac.probe.attributes))>>,
                               fac.probe.checkRequired)]
  /\ UNCHANGED syncVars

NextValidate ==
  \/ Validate

SpecValidate == InitValidate /\ [][NextValidate]_vars

\* --------------------------------------------- sync() called while it runs
\* Nothing in sync() looks at syncInProgress before it starts (lines
\* 255-257), so a second call made while the first one is awaiting runs next
\* to it; Slots are the two calls that can be running at once.
Slots == {1, 2}

InitOverlap ==
  /\ db = [e \in Entities |-> EmptyObject]
  /\ inv = [i \in Slots |-> NoInv]
  /\ syncInProgress = FALSE
  /\ nSyncs = 0
  /\ nWrites = 0
  /\ acked = {}
  /\ failedPush = EmptyObject
  /\ fac = OnlineFacade

\* What the server answers in these behaviours: a transport failure, a push
\* accepted whole, and a pull of one Client record.
OverlapPushResponses == {Reject, Http(HttpOk, Json(AcceptBody(EmptyObject, EmptyObject)))}
OverlapPullResponses ==
  {Reject}
    \cup {Http(HttpOk, DataBody(Json([e \in {"Client"} |-> <<r>>]))) :
            r \in {x \in ServerRecords("Client") : x.uuid = "c1" /\ x.val = "a"}}

NextOverlap ==
  \/ \E v \in Vals : LocalAdd("Client", "c1", v)
  \/ \E i \in Slots : \E o \in SyncOptions : SyncCall(i, o)
  \/ \E i \in Slots : \E e \in Entities : PushRead(i, e)
  \/ \E i \in Slots : \E resp \in OverlapPushResponses : PushResponse(i, resp)
  \/ \E i \in Slots : \E e \in Entities : PullRead(i, e)
  \/ \E i \in Slots : \E resp \in OverlapPullResponses : PullResponse(i, resp)

SpecOverlap == InitOverlap /\ [][NextOverlap]_vars


\* ------------------------------------- the reloads of a view model, racing
\* The view models of an application as its redux store sees them: every
\* action goes through the reducer of every view model.  A name is the
\* sequence of its characters; the first two names differ only in case.
\* None of these view models declares a state selector, so the subscriber of
\* subscribeToStoreChanges does nothing when their actions are dispatched.
Names == {<<"a">>, <<"A">>, <<"b">>}
Params == {"undefined", "p"}

\* String.prototype.toUpperCase
toUpperCase(s) ==
  [k \in DOMAIN s |->
     CASE s[k] = "a" -> "A"
       [] s[k] = "b" -> "B"
       [] OTHER -> s[k]]

\* view-model.ts lines 97-103
actionTypes(name) ==
  LET actionInterfix == toUpperCase(name)
  IN  [fetchPending |-> <<"MV", actionInterfix, "FETCH_PENDING">>,
       fetchSuccess |-> <<"MV", actionInterfix, "FETCH_SUCCESS">>,
       fetchError |-> <<"MV", actionInterfix, "FETCH_ERROR">>]

\* lines 105-110 (no view model is given initial parameters)
NoResult == <<"null">>
initialState ==
  [error |-> NoError, pending |-> FALSE, result |-> NoResult, parameters |-> "undefined"]

\* ViewModel.getReducer() of the view model `name`: the next state of its
\* slice and of its field _parameters.
getReducer(name, slice, action) ==
  LET state == slice.state
  IN  CASE action.type = <<"RESET_STATE">> ->
             [slice EXCEPT !.state = initialState]
        [] action.type = actionTypes(name).fetchPending ->
             LET parameters == IF action.payload # "undefined" THEN action.payload
                                                               ELSE state.parameters
             IN  [_parameters |-> parameters,
                  state |-> [state EXCEPT !.pending = TRUE, !.parameters = parameters]]
        [] action.type = actionTypes(name).fetchError ->
             [slice EXCEPT !.state = [state EXCEPT !.error = action.error,
                                                   !.pending = FALSE]]
        [] action.type = actionTypes(name).fetchSuccess ->
             [slice EXCEPT !.state = [state EXCEPT !.error = NoError, !.pending = FALSE,
                                                   !.result = action.payload]]
        [] OTHER -> [slice EXCEPT !._parameters = state.parameters]

\* The store of the application.  slices: per view model its state in the
\* store and its field _parameters.  reloads is history: one record per call
\* of a reload thunk, in the order of the calls, with the view model, the
\* parameters its binding was called with, where the reload stands ("running":
\* the promise of the binding is pending; "thrown": the binding threw when
\* it was called) and the number of terminal transitions it dispatched.
NewStore ==
  [slices |-> [n \in Names |-> [_parameters |-> "undefined", state |-> initialState]],
   reloads |-> << >>]

\* store.dispatch(action): the combined reducer.
dispatch(S, action) ==
  [S EXCEPT !.slices = [n \in Names |-> getReducer(n, S.slices[n], action)]]

\* What the binding called by the k-th reload resolves with.
Result(k) == <<"result", k>>

\* ViewModel.getReloadAction(parameters)(dispatch), lines 144-165, up to the
\* call of the binding in reload(), lines 120-142.
reloadThunk(S, name, parameters, how) ==
  LET S1 == dispatch(S, [type |-> actionTypes(name).fetchPending, payload |-> parameters])
      new == [name |-> name, parameters |-> S1.slices[name]._parameters,
              stage |-> IF how = "throw" THEN "thrown" ELSE "running", terminals |-> 0]
  IN  [S1 EXCEPT !.reloads = Append(@, new)]

\* settle that dispatches a completion only for the reload of its view model
\* that was started last: the reloads of a view model coalesced.
settle_LatestOnly(S, k, outcome) ==
  LET name == S.reloads[k].name
      latest == \A j \in DOMAIN S.reloads : S.reloads[j].name = name => j <= k
      S1 == IF ~latest THEN S
            ELSE IF outcome = "fulfilled"
              THEN dispatch(S, [type |-> actionTypes(name).fetchSuccess, payload |-> Result(k)])
              ELSE dispatch(S, [type |-> actionTypes(name).fetchError,
                                error |-> Err("BindingError")])
  IN  [S1 EXCEPT !.reloads[k].stage = outcome, !.reloads[k].terminals = @ + 1]

\* lines 150-163: the promise of the k-th reload settles and its .then or
\* its .catch callback dispatches the terminal transition.
settle(S, k, outcome) ==
  LET name == S.reloads[k].name
      S1 == IF outcome = "fulfilled"
              THEN dispatch(S, [type |-> actionTypes(name).fetchSuccess, payload |-> Result(k)])
              ELSE dispatch(S, [type |-> actionTypes(name).fetchError,
                                error |-> Err("BindingError")])
  IN  [S1 EXCEPT !.reloads[k].stage = outcome, !.reloads[k].terminals = @ + 1]

InitReload ==
  /\ db = [e \in Entities |-> EmptyObject]
  /\ inv = [i \in Invs |-> NoInv]
  /\ syncInProgress = FALSE
  /\ nSyncs = 0
  /\ nWrites = 0
  /\ acked = {}
  /\ failedPush = EmptyObject
  /\ fac = NewStore

\* The application dispatches viewModel.getReloadAction(parameters).
Reload(name, parameters, how) ==
  /\ Len(fac.reloads) < MaxReloads
  /\ fac' = reloadThunk(fac, name, parameters, how)
  /\ UNCHANGED syncVars

\* The binding of the k-th reload settles.
Settle(k, outcome) ==
  /\ k \in DOMAIN fac.reloads
  /\ fac.reloads[k].stage = "running"
  /\ fac' = settle(fac, k, outcome)
  /\ UNCHANGED syncVars

\* Database.resetState(): RESET_STATE goes through every reducer.
ResetState ==
  /\ fac' = dispatch(fac, [type |-> <<"RESET_STATE">>])
  /\ UNCHANGED syncVars

\* The application dispatches an action of its own.
OtherAction ==
  /\ fac' = dispatch(fac, [type |-> <<"APP">>])
  /\ UNCHANGED syncVars

NextReload ==
  \/ \E name \in Names : \E parameters \in Params : \E how \in Hows :
       Reload(name, parameters, how)
  \/ \E k \in 1..MaxReloads : \E outcome \in {"fulfilled", "rejected"} : Settle(k, outcome)
  \/ ResetState
  \/ OtherAction

SpecReload == InitReload /\ [][NextReload]_vars


\* ---------------------------------------- two view models with a selector
\* The application constructs vmA with a stateSelector as well (the same
\* slice), gives the facade its store, and then mounts, unmounts, changes
\* the slice and initializes the facade once.
SelectingFacade ==
  subscribeToStoreChanges(
    newDatabase([NewFacade EXCEPT !.vm["vmA"].stateSelector = TRUE], "async"))

InitStore ==
  /\ db = [e \in Entities |-> EmptyObject]
  /\ inv = [i \in Invs |-> NoInv]
  /\ syncInProgress = FALSE
  /\ nSyncs = 0
  /\ nWrites = 0
  /\ acked = {}
  /\ failedPush = EmptyObject
  /\ \E withSelector \in BOOLEAN :
       fac = IF withSelector THEN SelectingFacade
             ELSE subscribeToStoreChanges(newDatabase(NewFacade, "async"))

NextStore ==
  \/ \E v \in VMs : \E how \in Hows : Mount(v, how)
  \/ \E v \in VMs : Unmount(v)
  \/ \E x \in Exts : \E how \in Hows : ExternalChange(x, how)
  \/ \E v \in VMs : \E outcome \in Outcomes(v) : \E how \in Hows :
       ReloadSettles(v, outcome, how)
  \/ InitializeOnce
  \/ \E how \in Hows : InitializeFetched("ok", how)
  \/ \E how \in Hows : InitializeParsed(Body("docA"), how)
  \/ \E how \in Hows : InitializeOpened(TRUE, how)

SpecStore == InitStore /\ [][NextStore]_vars


\* ================================================================= claims
\* An invocation that was called without options and is still running.
Plain(st) == st.pc # "idle" /\ ~st.skipPush /\ ~st.skipPull /\ ~st.forcePullAll

InvAfterPush(i, resp) == PushResponded(inv[i], resp, rejectionWhitelist)
SettledInv(i) == inv[i].pc = "idle" /\ inv[i].result \in {"resolved", "rejected"}

\* C1: no local write is lost by synchronisation: a row whose dirty flag is 1
\* loses the flag (or is replaced) only when the server has accepted a push
\* holding the row's current content.
C1_NoLostWrite ==
  [][\A p \in Rows :
       (/\ p[2] \in DOMAIN db[p[1]]
        /\ IsDirty(db[p[1]][p[2]])
        /\ db'[p[1]] # db[p[1]]
        /\ (p[2] \notin DOMAIN db'[p[1]] \/ db'[p[1]][p[2]] # db[p[1]][p[2]])
        /\ (p[2] \notin DOMAIN db'[p[1]] \/ ~IsDirty(db'[p[1]][p[2]])))
       => p \in acked]_vars

\* C2: in an invocation that skips neither phase, the pull phase starts, and
\* the pull request is sent, only once the push phase has finished: its
\* response handled and accepted, or trivially succeeded.
C2_PushBeforePull ==
  \A i \in Invs :
    (inv[i].pc \in {"pullRead", "pullWait"} \/ inv[i].pullSent)
      /\ inv[i].pushPhase # "skipped"
    => inv[i].pushPhase \in {"trivial", "accepted"}
C2_Witness ==
  \E i \in Invs : inv[i].pc = "pullWait" /\ inv[i].pullSent /\ inv[i].pushPhase = "accepted"

\* A well-formed error response with the try-later code: the body parses,
\* does not report success and carries error-code 42 (under any status).
IsTryLater(resp) ==
  /\ resp.kind = "http"
  /\ resp.body.parses
  /\ ~(Has(resp.body.json, "success") /\ resp.body.json["success"])
  /\ Has(resp.body.json, "error-code")
  /\ resp.body.json["error-code"] = TryLaterCode

\* C3: a push answered by a well-formed error response with error-code 42
\* makes sync() resolve, and no pull request is sent in that invocation.
C3_TryLaterResolves ==
  /\ \A i \in Invs : inv[i].pc = "pushWait" =>
       \A resp \in PushResponses : IsTryLater(resp) =>
         LET new == InvAfterPush(i, resp)
         IN  new.pc = "idle" /\ new.result = "resolved" /\ ~new.pullSent
  /\ \A i \in Invs : inv[i].pushPhase = "soft" =>
       inv[i].pc = "idle" /\ inv[i].result = "resolved" /\ ~inv[i].pullSent

\* C4: a push that fails in any way (soft failure, non-200 response,
\* unsuccessful body, body that does not parse, conflict) leaves every local row and dirty flag as
\* it was, and with no local write in between the next sync() submits the
\* same payload again.
C4_FailedPushResubmitted ==
  failedPush # EmptyObject =>
    /\ db = failedPush.store
    /\ \A i \in Invs : inv[i].pc = "pushWait" => inv[i].pushBody = failedPush.body
C4_Witness ==
  \E i \in Invs : failedPush # EmptyObject /\ inv[i].pc = "pushWait" /\ nSyncs = 2

\* C5: a push that ends with a non-200 status without the try-later code, or
\* with a transport failure, makes sync() reject with a DatabaseSyncError of
\* type "push" that carries the payload, and no pull request is sent.
C5_PushErrorIsSyncError ==
  \A i \in Invs : inv[i].pc = "pushWait" =>
    \A resp \in PushResponses :
      (resp.kind = "reject" \/ (resp.status # HttpOk /\ ~IsTryLater(resp))) =>
        LET new == InvAfterPush(i, resp)
        IN  /\ new.pc = "idle" /\ new.result = "rejected" /\ ~new.pullSent
            /\ new.error.name = "DatabaseSyncError"
            /\ new.error.type = "push"
            /\ new.error.pushPayload = inv[i].pushBody

\* C6: after a push the server accepted in full, with no local write since,
\* no pushed row is still dirty once sync() has settled.
C6_AcceptedRowsClean ==
  \A i \in Invs :
    SettledInv(i) /\ inv[i].pushPhase = "accepted" /\ ~inv[i].wrote =>
      \A p \in acked : p[2] \in DOMAIN db[p[1]] => ~IsDirty(db[p[1]][p[2]])

\* C7: the payload is keyed by exactly the entities that have a dirty row,
\* each key holding exactly that entity's dirty rows without the dirty flag;
\* with no dirty row anywhere no request is sent and the phase succeeds.
DirtyKeys(e) == {u \in DOMAIN db[e] : IsDirty(db[e][u])}
C7_PayloadIsDirtyRows ==
  \A i \in Invs :
    /\ inv[i].pc = "pushWait" /\ ~inv[i].wrote =>
         /\ DOMAIN inv[i].pushBody = {e \in Entities : DirtyKeys(e) # {}}
         /\ DOMAIN inv[i].pushBody # {}
         /\ \A e \in DOMAIN inv[i].pushBody :
              /\ {r.uuid : r \in inv[i].pushBody[e]} = DirtyKeys(e)
              /\ \A r \in inv[i].pushBody[e] :
                   /\ ~Has(r, "isSuitableForPush")
                   /\ SetField(r, "isSuitableForPush", 1) = db[e][r.uuid]
    /\ inv[i].pushPhase = "trivial" /\ ~inv[i].wrote
       /\ inv[i].pc \in {"pullRead", "pullWait"} =>
         \A e \in Entities : DirtyKeys(e) = {}
C7_Witness ==
  \E i \in Invs :
    /\ inv[i].pc = "pushWait" /\ ~inv[i].wrote
    /\ DOMAIN inv[i].pushBody = {"Client"}
    /\ DOMAIN db["Order"] # {}
    /\ DOMAIN db["Client"] = {"c1", "c2"}
    /\ Cardinality(inv[i].pushBody["Client"]) = 1

\* C8: for a response with success = true the push throws a SyncConflictError,
\* carrying both rejection maps and the payload, exactly when some rejection
\* is not covered by the whitelist: a rejected-objects key not whitelisted, or
\* a rejected-fields key not whitelisted with a rejected field name not
\* whitelisted; otherwise the push counts as accepted.
Whitelists == SUBSET (RejKeys \cup {"name", "val"})
C8_ConflictIffUncovered ==
  \A i \in Invs : inv[i].pc = "pushWait" =>
    \A resp \in AcceptResponses : \A wl \in Whitelists :
      LET ro == resp.body.json["rejected-objects"]
          rf == resp.body.json["rejected-fields"]
          new == PushResponded(inv[i], resp, wl)
      IN  IF Uncovered(ro, rf, wl)
            THEN /\ new.pc = "idle" /\ new.result = "rejected"
                 /\ new.error = [name |-> "SyncConflictError",
                                 pushPayload |-> inv[i].pushBody,
                                 rejectedFields |-> rf, rejectedObjects |-> ro]
            ELSE new.result = "pending" \/ new.result = "resolved"
C8_Witness ==
  \E i \in Invs :
    /\ SettledInv(i) /\ inv[i].result = "rejected"
    /\ inv[i].error.name = "SyncConflictError"
    /\ DOMAIN inv[i].error.rejectedObjects = {}
    /\ DOMAIN inv[i].error.pushPayload # {}

\* C9: the cursor of a non-forced pull is, per entity, the largest local
\* syncRevision plus one (also for revision 0), and 0 only when the entity has
\* no row with a syncRevision; a forced pull sends 0 for every entity.
RevisionsOf(e) == {db[e][u].syncRevision : u \in {k \in DOMAIN db[e] : Has(db[e][k], "syncRevision")}}
C9_CursorIsLastPlusOne ==
  \A i \in Invs : inv[i].pc = "pullWait" =>
    \A e \in Entities :
      inv[i].cursor[e] =
        IF inv[i].forcePullAll \/ RevisionsOf(e) = {} THEN 0
        ELSE 1 + CHOOSE m \in RevisionsOf(e) : \A r \in RevisionsOf(e) : r <= m

C11_MergeIdempotent ==
  \A i \in Invs : inv[i].pc = "pullWait" =>
    \A resp \in PullResponses :
      PullApplied(resp) =>
        LET once == PullMerged(db, resp, LocalTime, "c1")
        IN  PullMerged(once, resp, LaterTime, "c1") = once
\* A second pull is in flight over a store that already holds the merge of a
\* response with records, next to a dirty local row.
C11_Witness ==
  \E i \in Invs :
    /\ inv[i].pc = "pullWait" /\ nSyncs = 2
    /\ \E u \in DOMAIN db["Client"] : IsDirty(db["Client"][u])
    /\ \E resp \in PullResponses :
         /\ PullApplied(resp)
         /\ MergedKeys(resp.body.json["data"].json) # {}
         /\ PullMerged(db, resp, LocalTime, "c1") = db

\* C12: a pull answered with a non-200 status, a body that does not parse or
\* a body whose success is not true makes sync() reject with a
\* DatabaseSyncError of type "pull" and leaves the store as it was; a merge
\* that fails part-way leaves the store as it was, too.
PullRefused(resp) ==
  /\ resp.kind = "http"
  /\ \/ resp.status # HttpOk
     \/ ~resp.body.parses
     \/ ~(Has(resp.body.json, "success") /\ resp.body.json["success"])
C12_FailedPullLeavesStore ==
  \A i \in Invs : inv[i].pc = "pullWait" =>
    \A resp \in PullResponses :
      LET new == PullResponded(inv[i], resp)
          store == PullMerged(db, resp, LocalTime, "c1")
      IN  /\ PullRefused(resp) =>
               /\ new.pc = "idle" /\ new.result = "rejected"
               /\ new.error.name = "DatabaseSyncError" /\ new.error.type = "pull"
               /\ store = db
          /\ (resp.kind = "http" /\ ~PullRefused(resp) /\ resp.body.json["data"].parses
                /\ \E e \in DOMAIN resp.body.json["data"].json :
                     \E k \in DOMAIN resp.body.json["data"].json[e] :
                        resp.body.json["data"].json[e][k].uuid = InvalidKey) =>
               /\ new.pc = "idle" /\ new.result = "rejected"
               /\ store = db
C12_Witness ==
  \E i \in Invs :
    /\ SettledInv(i) /\ inv[i].pullSent /\ inv[i].result = "rejected"
    /\ inv[i].error = BulkError
    /\ DOMAIN db["Client"] # {}

\* C13: with one sync() at a time, syncInProgress is true from the start of
\* the invocation until it settles and false once it has settled, however it
\* settled.
C13_InProgressWhileRunning ==
  /\ \A i \in Invs : inv[i].pc # "idle" => syncInProgress
  /\ (\A i \in Invs : inv[i].pc = "idle") => ~syncInProgress
C13_Witness ==
  \E i \in Invs : SettledInv(i) /\ inv[i].result = "rejected" /\ ~syncInProgress
                  /\ inv[i].pullSent

\* C14: the options affect only the invocation they are passed to: a sync()
\* called without options performs its push phase, does not skip its pull
\* while the push has not answered, and sends an incremental pull (the cursor
\* of every entity is derived from the entity's highest local revision, it is
\* not the forced 0), whatever an earlier invocation was given or came to.
C14_OptionsDoNotPersist ==
  \A i \in Invs :
    Plain(inv[i]) =>
      /\ inv[i].pushPhase \notin {"none", "skipped"}
      /\ inv[i].pc \in {"pushRead", "pushWait"} => ~inv[i].shouldSkipPull
      /\ inv[i].pc = "pullWait" =>
           \A e \in Entities : inv[i].cursor[e] = CursorOf(LastSyncRevision(db[e]))
C14_Witness ==
  \E i \in Invs :
    /\ Plain(inv[i])
    /\ inv[i].prior
    /\ inv[i].pc = "pullWait"
    /\ \E e \in Entities : inv[i].cursor[e] > 0

\* C15: whenever sync() has rejected with a push or pull sync error, the
\* database state of the facade has status "offline" and holds that error;
\* whenever sync() has resolved, the database state holds no error.
C15_SyncErrorRecorded ==
  \A i \in Invs :
    /\ (SettledInv(i) /\ inv[i].result = "rejected"
           /\ inv[i].error.name = "DatabaseSyncError")
        => (fac.dbState.status = "offline" /\ fac.dbState.error = inv[i].error)
    /\ (SettledInv(i) /\ inv[i].result = "resolved")
        => fac.dbState.error = NoError

\* C16: a view model bound to a Database is in the registry exactly when its
\* mount count is greater than 0.
C16_RegisteredIffMounted ==
  \A v \in VMs :
    fac.vm[v].bound => (IsRegistered(fac, v) <=> fac.vm[v].mountCount > 0)

\* No reload of v was ever started: its redux state is the initial one and
\* no promise of a reload is pending.
NeverReloaded(v) ==
  /\ ~fac.vm[v].pending /\ fac.vm[v].error = NoError /\ fac.vm[v].result = "null"
  /\ fac.vm[v].inFlight = 0 /\ fac.vm[v].doomed = 0

\* C17: the first mount of a view model results in its initial reload, also
\* when the mount happens before initialize() has completed: once the facade
\* is initialized, a mounted view model has been reloaded.
C17_InitialReload ==
  \A v \in VMs :
    (fac.isInitialized /\ fac.store /\ fac.vm[v].bound /\ fac.vm[v].mountCount > 0)
      => ~NeverReloaded(v)

\* C18: a complete, non-empty change batch delivered while changes are not
\* frozen starts a reload of a registered view model exactly when one of the
\* changed tables is in the read-set the view model declares.
C18_ReloadIffReadTable ==
  [][\A tables \in SUBSET Entities : \A how \in Hows :
       (ChangeBatch(tables, FALSE, how) /\ tables # {} /\ ~fac.isChangesFrozen)
         => \A v \in VMs :
              IsRegistered(fac, v)
                => (fac'.reloaded[v] > 0 <=> tables \cap readTables(v) # {})]_vars

\* C19: no failure of a reload reaches the code that triggered the reload as
\* an exception, and every failure ends as an error transition: no step ends
\* with the binding's exception at its caller, and a view model is pending
\* only while a promise of one of its reloads has still to settle.
C19_ReloadFailureIsCaught ==
  /\ fac.threw # Err("BindingError")
  /\ \A v \in VMs :
       fac.vm[v].pending => (fac.vm[v].inFlight > 0 \/ fac.vm[v].doomed > 0)

\* The errors a failing step of initialize() ends with, by the step.
StepErrors(pc) ==
  CASE pc = "delete" -> {Err("DeleteError")}
    [] pc = "fetch" -> {Err("TypeError"), Err("Error")}
    [] pc = "json" -> {Err("SyntaxError"), Err("TypeError")}
    [] pc = "wipeOpen" -> {Err("OpenError")}
    [] pc = "wipeDelete" -> {Err("DeleteError")}
    [] pc = "open" -> {Err("DatabaseOpenError")}
    [] OTHER -> {}

\* C20: a step that ends initialize() either is the storage open succeeding,
\* and then the status is "online" without error and the facade is
\* initialized; or it is a failing step, and then
\* DATABASE_INITIALIZATION_ERROR is dispatched with the step's error, the
\* status is "uninitialized" with that error, DATABASE_INITIALIZED is not
\* dispatched, and no new initialize() call is started.
C20_InitializeOutcome ==
  [][(fac.initPc # "idle" /\ fac'.initPc = "idle")
       => /\ fac'.nInits = fac.nInits
          /\ IF fac.initPc = "open" /\ fac'.isOpen
               THEN /\ fac'.dbState.status = "online"
                    /\ fac'.dbState.error = NoError
                    /\ fac'.isInitialized
                    /\ fac'.dispatched = {"DATABASE_INITIALIZED"}
               ELSE /\ fac'.dbState.status = "uninitialized"
                    /\ fac'.dbState.error \in StepErrors(fac.initPc)
                    /\ fac'.dispatched = {"DATABASE_INITIALIZATION_ERROR"}]_vars

\* C21: when the hash of the newly derived storage schema differs from the
\* stored one, the storage opens under the new schema only after the whole
\* local database was deleted (it is created anew, without rows), and once the
\* storage has opened the new hash is the stored one.
C21_WipeBeforeOpen ==
  [][(fac.initPc = "open" /\ fac'.isOpen) =>
       /\ fac'.storedHash = fac.schemaHash
       /\ (fac.storedHash # 0 /\ fac.storedHash # fac.schemaHash) =>
            /\ fac.wiped
            /\ fac'.created = fac.schemaHash
            /\ \A e \in Entities : db'[e] = EmptyObject]_vars
C21_Witness ==
  /\ fac.initPc = "idle" /\ fac.isOpen /\ fac.wiped
  /\ fac.storedHash = receivedSchemaHash("docB", NoIndexes)
  /\ fac.created = fac.storedHash
  /\ nWrites > 0
  /\ \A e \in Entities : db[e] = EmptyObject

\* initialize() is past the translation of its document, and it was called
\* without truncate.
Translated(F) == F.initPc \in {"wipeOpen", "wipeDelete", "open"} /\ ~F.truncate
\* Some row is dirty.
SomeDirty == \E e \in Entities : DirtyKeys(e) # {}

\* C22 as stated: initialize() run again (without truncate) with the document
\* the model was translated from before deletes no database and no row.
C22_UnchangedDocumentKeepsRows ==
  [][(Translated(fac) /\ fac.model = fac.prevModel /\ fac'.initPc # fac.initPc) =>
       /\ db' = db
       /\ ~(fac.created # 0 /\ fac'.created = 0)]_vars

\* C22, amended: initialize() run again (without truncate) with the document
\* and the indexes option under which the storage was last opened derives
\* the stored hash again, goes on to open the storage, and deletes no
\* database and no row.
C22_SameSchemaKeepsRows ==
  [][(/\ Translated(fac)
      /\ fac.model = fac.opened.model /\ fac.indexes = fac.opened.indexes
      /\ fac'.initPc # fac.initPc) =>
       /\ fac.schemaHash = fac.storedHash
       /\ fac.initPc = "open"
       /\ db' = db
       /\ ~(fac.created # 0 /\ fac'.created = 0)]_vars
C22_Witness ==
  /\ fac.nInits = 2 /\ fac.initPc = "open" /\ ~fac.truncate
  /\ fac.model = fac.opened.model /\ fac.indexes = fac.opened.indexes
  /\ fac.indexes # NoIndexes
  /\ fac.created # 0
  /\ SomeDirty

\* C23: a document without a root schema node makes the translation fail and
\* return no schema: the step of initialize() that translates it ends the run
\* in the initialization-error state, and it leaves the model, the database
\* and the storage as they were.
C23_MissingRootFails ==
  [][\A how \in Hows :
       InitializeParsed(Body("noRoot"), how) =>
         /\ fac'.initPc = "idle"
         /\ fac'.dbState.status = "uninitialized"
         /\ fac'.dbState.error # NoError
         /\ fac'.model = fac.model
         /\ fac'.declared = fac.declared
         /\ fac'.created = fac.created
         /\ fac'.isOpen = fac.isOpen
         /\ db' = db]_vars

\* ------------------------------------------------------- the write guard
\* A step of the guarded-write specification that is not the merge.
OutsideMerge == nSyncs' = nSyncs
\* The row under <<e, u>> was created or changed by the step.
Written(e, u) ==
  /\ u \in DOMAIN db'[e]
  /\ (u \in DOMAIN db[e] => db'[e][u] # db[e][u])

\* C24: every create and every update with a non-empty change-set outside the
\* merge transaction leaves the written row with isSuitableForPush = 1; only
\* the merge transaction writes a row whose flag is 0.
C24_DirtyOutsideMerge ==
  [][\A e \in Entities : \A u \in UuidsOf(e) :
       (OutsideMerge /\ Written(e, u)) => IsDirty(db'[e][u])]_vars

\* The fields the creating hook writes.
Stamped == {"uuid", "createdAt", "updatedAt", "active", "isSuitableForPush"}

\* C25: a create outside the merge transaction stores the item with its uuid
\* kept or generated, createdAt = updatedAt = now, active kept or 1, and
\* isSuitableForPush = 1; a create inside the merge transaction stores the
\* pulled record's own values with isSuitableForPush = 0.
C25_CreateStamps ==
  [][/\ \A e \in Entities : \A item \in Items(e) : \A gen \in UuidsOf(e) :
          LET key == IF Has(item, "uuid") THEN item.uuid ELSE gen
          IN  (SafelyAdd(e, item, gen) /\ key \notin DOMAIN db[e] /\ db'[e] # db[e]) =>
                /\ DOMAIN db'[e] = DOMAIN db[e] \cup {key}
                /\ DOMAIN db'[e][key] = DOMAIN item \cup Stamped
                /\ db'[e][key].uuid = key
                /\ db'[e][key].createdAt = LocalTime
                /\ db'[e][key].updatedAt = LocalTime
                /\ db'[e][key].active = (IF Has(item, "active") THEN item.active ELSE 1)
                /\ db'[e][key].isSuitableForPush = 1
                /\ \A f \in DOMAIN item \ Stamped : db'[e][key][f] = item[f]
     /\ \A data \in PulledDatas :
          Merge(data) =>
            \A e \in DOMAIN data : \A k \in DOMAIN data[e] :
              data[e][k].uuid \notin DOMAIN db[e] =>
                /\ data[e][k].uuid \in DOMAIN db'[e]
                /\ db'[e][data[e][k].uuid] = SetField(data[e][k], "isSuitableForPush", 0)]_vars

\* A row created by safelyAdd from an item that brought uuid, active and a
\* createdAt of its own, next to a row created by the merge.
C25_Witness ==
  /\ "c1" \in DOMAIN db["Client"]
  /\ db["Client"]["c1"].active = 0
  /\ db["Client"]["c1"].createdAt = LocalTime
  /\ db["Client"]["c1"].isSuitableForPush = 1
  /\ "c2" \in DOMAIN db["Client"]
  /\ db["Client"]["c2"].createdAt = ServerTime
  /\ db["Client"]["c2"].isSuitableForPush = 0

\* The installed schema of entity e.
TableOf(e) == selectedTable(validationSchemas[fac.model], e)
\* The change-set leaves out a required attribute the guard looks at.
OmitsRequired(e, changes) ==
  \E k \in DOMAIN TableOf(e).attributes :
    LET attribute == TableOf(e).attributes[k]
    IN  /\ attribute.constraints.required
        /\ attribute.name \notin autoAddedAttributes
        /\ ~Has(changes, attribute.name)
\* Every field present in the change-set obeys the rules of its declaration.
PresentValid(e, changes) ==
  /\ \A k \in DOMAIN TableOf(e).attributes :
       Has(changes, TableOf(e).attributes[k].name) =>
         AttributeError(e, changes, FALSE, TableOf(e).attributes[k]) = NoError
  /\ \A k \in DOMAIN TableOf(e).relationships :
       RelationError(e, changes, TableOf(e).relationships[k]) = NoError
  /\ UnknownKeyError(e, changes, TableOf(e)) = NoError

\* C26: safelyUpdate applies the rules to the fields present in the change-set
\* only: a change-set that omits a required attribute and whose present fields
\* are all valid passes validation and is written.
C26_PartialUpdatePasses ==
  [][\A e \in Entities : \A key \in UuidsOf(e) : \A changes \in ChangeSets(e) :
       (/\ SafelyUpdate(e, key, changes)
        /\ OmitsRequired(e, changes)
        /\ PresentValid(e, changes)) =>
          /\ fac'.threw = NoError
          /\ \A f \in DOMAIN changes : db'[e][key][f] = changes[f]]_vars

\* The step persisted nothing, notified nothing and threw `error`.
Rejected(error) ==
  /\ fac'.threw = error
  /\ db' = db
  /\ fac'.changed = fac.changed
  /\ fac'.vm = fac.vm
  /\ fac'.dispatched = {}
  /\ \A v \in VMs : fac'.reloaded[v] = 0

\* C27: a write that validation rejects persists nothing: safelyAdd and
\* safelyUpdate throw the DatabaseValidationError before add/update is called;
\* the tables are as before, no change is left for the listeners and no view
\* model is reloaded.
C27_RejectedWritePersistsNothing ==
  [][/\ \A e \in Entities : \A item \in Items(e) : \A gen \in UuidsOf(e) :
          LET error == validateDexie(e, item, validationSchemas[fac.model], TRUE)
          IN  (SafelyAdd(e, item, gen) /\ error # NoError) => Rejected(error)
     /\ \A e \in Entities : \A key \in UuidsOf(e) : \A changes \in ChangeSets(e) :
          LET error == validateDexie(e, changes, validationSchemas[fac.model], FALSE)
          IN  (SafelyUpdate(e, key, changes) /\ error # NoError) => Rejected(error)]_vars

\* A rejected write on tables that hold rows, with changes of an earlier
\* write still to be delivered to the mounted view model.
C27_Witness ==
  /\ Has(fac.threw, "name")
  /\ fac.threw.name = "DatabaseValidationError"
  /\ fac.threw.failedConstraint = "maxLength"
  /\ db["Client"] # EmptyObject
  /\ fac.changed = {"Client"}
  /\ IsRegistered(fac, "vmA")

\* ---------------------------------------------- validation, rule by rule
\* The declaration validated by the call, and whether its attribute is
\* required.
Declared(k) == fac.probe.attributes[k].attr
IsRequired(attributeValues) ==
  ~(Has(attributeValues, "optional") /\ attributeValues["optional"] = "YES")
\* A create-time call that has returned or thrown, whose payload omits the
\* required k-th attribute.
OmittedAtCreate(k) ==
  /\ fac.probe.returned
  /\ fac.probe.checkRequired
  /\ IsRequired(Declared(k))
  /\ ~Has(fac.probe.objectToAdd, Declared(k).name)
\* The check of the j-th declared attribute throws nothing.
Passes(j) ==
  AttributeError("T", fac.probe.objectToAdd, fac.probe.checkRequired,
                 EntityValidation(RawEntity(fac.probe.attributes))
                   .attributes[Len(Bookkeeping) + j]) = NoError

\* C28 as stated: at create time a payload that omits a required attribute
\* (other than the bookkeeping fields) is rejected with failedConstraint
\* "required" naming that attribute.
C28_OmittedIsRequiredError ==
  \A k \in DOMAIN fac.probe.attributes :
    OmittedAtCreate(k) =>
      fac.probe.error = DatabaseValidationError("T", Declared(k).name, "required")

\* C28 amended: the payload is rejected with a DatabaseValidationError, which
\* is the "required" error naming the attribute when every attribute declared
\* before it passes its own checks; the bookkeeping fields are never asked for.
C28_OmittedIsRejected ==
  \A k \in DOMAIN fac.probe.attributes :
    OmittedAtCreate(k) =>
      /\ Has(fac.probe.error, "name")
      /\ fac.probe.error.name = "DatabaseValidationError"
      /\ fac.probe.error.badAttribute \notin autoAddedAttributes
      /\ (\A j \in 1 .. k - 1 : Passes(j)) =>
           fac.probe.error = DatabaseValidationError("T", Declared(k).name, "required")

\* A payload with a valid number and no name, for an entity whose second
\* attribute is the required name: rejected as required, naming "name".
C28_Witness ==
  /\ Len(fac.probe.attributes) = 2
  /\ OmittedAtCreate(2)
  /\ fac.probe.objectToAdd = [val |-> Num(1)]
  /\ fac.probe.error = DatabaseValidationError("T", "name", "required")

\* The call validated an entity of one declared attribute whose property is
\* present in the payload with a value that is neither null nor undefined.
OneAttribute(attributeTypes) ==
  /\ fac.probe.returned
  /\ Len(fac.probe.attributes) = 1
  /\ Declared(1).attributeType \in attributeTypes
  /\ Has(fac.probe.objectToAdd, Declared(1).name)
  /\ ~isNullish(fac.probe.objectToAdd[Declared(1).name])
ProbedValue == fac.probe.objectToAdd[Declared(1).name]

\* C29: for a boolean attribute validation accepts exactly the values 0 and
\* 1; every other present value (true, false, other numbers, strings) is
\* rejected with failedConstraint "typeError" naming the attribute.
C29_BooleanIsZeroOrOne ==
  OneAttribute({"Boolean"}) =>
    IF ProbedValue \in {Num(0), Num(1)}
      THEN fac.probe.error = NoError
      ELSE fac.probe.error = DatabaseValidationError("T", Declared(1).name, "typeError")

\* The bounds the attribute declares (Undefined: none), and the size of the
\* value they bound: the number itself, or the length of the string.
DeclaredMin ==
  IF Has(Declared(1), "minValueString") THEN Declared(1)["minValueString"] ELSE Undefined
DeclaredMax ==
  IF Has(Declared(1), "maxValueString") THEN Declared(1)["maxValueString"] ELSE Undefined
IsNumeric == Declared(1).attributeType \in numberTypes
Size == IF IsNumeric THEN ProbedValue.n ELSE Len(ProbedValue.s)
\* The value has the declared type.
WellTyped == ProbedValue.t = (IF IsNumeric THEN "number" ELSE "string")

\* C30: a declared bound is enforced for every bound value, 0 included: a
\* number above maxValue or below minValue is rejected with "maxValue" /
\* "minValue", a string longer than maxLength or shorter than minLength with
\* "maxLength" / "minLength"; a value within the declared bounds is accepted.
C30_BoundsEnforced ==
  (OneAttribute({"Integer 32", "String"}) /\ WellTyped) =>
    IF DeclaredMax # Undefined /\ Size > DeclaredMax
      THEN fac.probe.error =
             DatabaseValidationError("T", Declared(1).name,
                                     IF IsNumeric THEN "maxValue" ELSE "maxLength")
    ELSE IF DeclaredMin # Undefined /\ Size < DeclaredMin
      THEN fac.probe.error =
             DatabaseValidationError("T", Declared(1).name,
                                     IF IsNumeric THEN "minValue" ELSE "minLength")
    ELSE fac.probe.error = NoError

\* ------------------------------------------------- frame of a local update
\* C35: an update outside the merge transaction changes only the fields its
\* change-set names, updatedAt and the dirty flag: active (0 on a row that
\* was deleted softly) and syncRevision keep their values when the
\* change-set does not name them.
C35_UpdateFrame ==
  [][\A e \in Entities : \A key \in UuidsOf(e) : \A changes \in ChangeSets(e) :
       ((SafelyUpdate(e, key, changes) \/ Update(e, key, changes))
          /\ db'[e] # db[e]) =>
         \A f \in DOMAIN db[e][key] \ (DOMAIN changes \cup {"updatedAt", "isSuitableForPush"}) :
           /\ f \in DOMAIN db'[e][key]
           /\ db'[e][key][f] = db[e][key][f]]_vars

\* ------------------------------------------- the state after initialize()
\* initialize() settles successfully in this step: its dao.open() settles
\* and DATABASE_INITIALIZED is the last transition of the database state.
InitializeSucceeds ==
  fac.initPc = "open" /\ fac'.initPc = "idle" /\ fac'.dbState.status = "online"

\* C38: when initialize() found the hash of the schema changed, wiped the
\* local database and then completes successfully, the database state has
\* hasVersionChanged = TRUE once initialize() has settled.
C38_VersionChangeStaysVisible ==
  [][(InitializeSucceeds /\ fac.wiped) => fac'.dbState.hasVersionChanged]_vars

\* The most recent initialize() call has settled and it failed: the catch
\* block left the status "uninitialized".
LastInitializeFailed ==
  fac.nInits > 0 /\ fac.initPc = "idle" /\ fac.dbState.status = "uninitialized"

\* C39: isInitialized is true only while the most recent initialize() call
\* has completed successfully: after a later call has failed it is false.
C39_InitializedOnlyAfterSuccess ==
  LastInitializeFailed => ~fac.isInitialized

\* ------------------------------------------------- overlapping sync() calls
\* C36: syncInProgress is true whenever at least one sync() invocation is
\* still running, also when invocations overlap.
C36_InProgressWhileAnyRuns ==
  (\E i \in DOMAIN inv : inv[i].pc # "idle") => syncInProgress

\* ------------------------------------------------------ the racing reloads
\* The reloads of the view model `name` whose promise is pending.
InFlight(name) ==
  {k \in DOMAIN fac.reloads :
     fac.reloads[k].name = name /\ fac.reloads[k].stage = "running"}

\* C31: every reload dispatches its pending transition first and afterwards
\* exactly one terminal transition: a reload that was started is waiting for
\* its binding to settle, or it has dispatched one terminal transition.
C31_OneTerminalPerReload ==
  \A k \in DOMAIN fac.reloads :
    \/ fac.reloads[k].stage = "running" /\ fac.reloads[k].terminals = 0
    \/ fac.reloads[k].stage \in {"fulfilled", "rejected"} /\ fac.reloads[k].terminals = 1

\* C32: reloads of one view model in flight together are neither coalesced
\* nor ordered: whichever of them settles dispatches its own completion, the
\* others stay in flight, and a fulfilled one makes its payload the result,
\* whether it was started before or after the reload whose result it replaces.
C32_LastCompletionWins ==
  [][\A k \in DOMAIN fac.reloads : \A outcome \in {"fulfilled", "rejected"} :
       Settle(k, outcome) =>
         LET name == fac.reloads[k].name
         IN  /\ fac'.reloads[k].terminals = 1
             /\ InFlight(name)' = InFlight(name) \ {k}
             /\ ~fac'.slices[name].state.pending
             /\ outcome = "fulfilled" => fac'.slices[name].state.result = Result(k)
             /\ outcome = "rejected" =>
                  /\ fac'.slices[name].state.result = fac.slices[name].state.result
                  /\ fac'.slices[name].state.error = Err("BindingError")]_vars
\* Two reloads of one view model have both completed, and the result is the
\* payload of the one that was started first: it completed last.
C32_Witness ==
  \E k1, k2 \in DOMAIN fac.reloads :
    /\ k1 < k2
    /\ fac.reloads[k1].name = <<"b">> /\ fac.reloads[k2].name = <<"b">>
    /\ fac.reloads[k1].stage = "fulfilled" /\ fac.reloads[k2].stage = "fulfilled"
    /\ fac.slices[<<"b">>].state.result = Result(k1)

\* C37: the state of a view model has pending = TRUE whenever a reload of
\* it is in flight, also when several reloads of it overlap.
C37_PendingWhileInFlight ==
  \A name \in Names : InFlight(name) # {} => fac.slices[name].state.pending

\* C40: the reducer of a view model reacts only to the reload transitions of
\* its own view model and to RESET_STATE: a reload of one view model, and its
\* completion, leave the state of every view model with another name as it
\* was, also when the names differ only in case.
C40_OthersUntouched ==
  [][\A name \in Names :
       (\/ \E parameters \in Params : \E how \in Hows : Reload(name, parameters, how)
        \/ \E k \in DOMAIN fac.reloads : \E outcome \in {"fulfilled", "rejected"} :
             fac.reloads[k].name = name /\ Settle(k, outcome)) =>
         \A other \in Names \ {name} :
           fac'.slices[other].state = fac.slices[other].state]_vars

\* --------------------------------------------- reloads on a store change
\* C33: on a change of the external slice, a registered view model with a
\* state selector is reloaded if and only if the new slice differs from the
\* slice last observed for it, and the new slice is then the one last
\* observed; view models without a selector and unregistered view models
\* are not reloaded by the change.
C33_ReloadIffSliceChanged ==
  [][\A x \in Exts : \A how \in Hows :
       ExternalChange(x, how) =>
         \A v \in VMs :
           IF IsRegistered(fac, v) /\ fac.vm[v].stateSelector
             THEN /\ fac'.reloaded[v] > 0 <=> fac.vm[v].lastReloadState # x
                  /\ fac'.vm[v].lastReloadState = x
             ELSE /\ fac'.reloaded[v] = 0
                  /\ fac'.vm[v] = fac.vm[v]]_vars
\* The slice has changed and the change reloaded both view models, each
\* with a selector and mounted twice, on the initialized facade.
C33_Witness ==
  /\ fac.isInitialized /\ fac.ext = 1 /\ fac.dispatched = {}
  /\ \A v \in VMs :
       /\ fac.vm[v].stateSelector /\ fac.vm[v].mountCount = 2
       /\ fac.reloaded[v] = 1 /\ fac.vm[v].lastReloadState = 1

\* ------------------------------------------------------- frozen changes
\* The step starts no reload and leaves every view model as it was.
NoReload ==
  /\ \A v \in VMs : fac'.reloaded[v] = 0
  /\ fac'.vm = fac.vm

\* C34: a batch of changes that arrives while changes are frozen, or that is
\* partial or empty, starts no reload and is dropped, not queued: nothing is
\* left to deliver after it, and setChangesFrozen starts no reload and
\* delivers nothing.
C34_FrozenBatchIsDropped ==
  [][/\ \A how \in Hows :
          (ChangesObserved(how) /\ fac.isChangesFrozen) =>
            NoReload /\ fac'.changed = {}
     /\ \A tables \in SUBSET Entities : \A partial \in BOOLEAN : \A how \in Hows :
          (ChangeBatch(tables, partial, how)
             /\ (fac.isChangesFrozen \/ partial \/ tables = {})) => NoReload
     /\ \A isFrozen \in BOOLEAN :
          SetChangesFrozen(isFrozen) => NoReload /\ fac'.changed = fac.changed]_vars
\* The one write of the behaviour, to a table vmA reads, was delivered while
\* changes were frozen; changes are no longer frozen, nothing is left to
\* deliver, and vmA has the result of the reload of its mount.
C34_Witness ==
  /\ ~fac.isChangesFrozen /\ fac.changed = {} /\ "Client" \in fac.dropped
  /\ nWrites = 1 /\ nSyncs = 0 /\ DOMAIN db["Client"] # {}
  /\ IsRegistered(fac, "vmA") /\ "Client" \in readTables("vmA")
  /\ fac.vm["vmA"].inFlight = 0 /\ ~fac.vm["vmA"].pending
  /\ fac.vm["vmA"].result = "data"

====
